---- MODULE Spec2Model ----
(***************************************************************************)
(* Model of the th260 TTTR core: the T2/T3 buffer decoders                 *)
(* (th260/ptu_format.py), the growable table, the binning table and the   *)
(* channel results (th260/tttr_result.py).                                 *)
(*                                                                         *)
(* Numbers.  A raw record is an unsigned 32-bit word; the decoders also    *)
(* compute with Python integers above 2^32 and with int64 arrays.  The     *)
(* model writes such a number in base 2^25 (the width of the T2 timetag    *)
(* field) as three digits <<d2, d1, d0>> = d2*2^50 + d1*2^25 + d0.  A raw  *)
(* record is the pair <<hdr, low>>: hdr is its top 7 bits (special bit and *)
(* 6-bit channel field), low its 25 low bits, so its value is              *)
(* <<0, hdr, low>>.  uint32 arithmetic is arithmetic modulo 2^32 =         *)
(* 2^7 * 2^25 on these digits.                                             *)
(***************************************************************************)
EXTENDS Integers, Sequences, FiniteSets, TLC

\* ------------------------------------------------------------------ bounds
\* Longest buffer built from RecordSet.
MaxLen == 3
\* Channels (and marker codes) passed to the decoders: 1..MaxChannel.
MaxChannel == 2
\* Operations performed on the ExtendableTable.
MaxTableOps == 4
\* Lengths of a short and of a long slice added to the table.
SmallSlice == 3
BigSlice == 600
\* binnableTable: largest timestamp, largest bin factor, longest slice
\* added, number of timestamps added in all.
MaxT == 2
MaxFactor == 2
MaxBinSlice == 2
MaxBinTotal == 3
\* Length of the run of full-payload overflow records in the long buffer.
LongRun == 129
\* Length of the long chunk a stream may be cut at, and the number of
\* add_buffer calls of one measurement.
LongChunk == 100
MaxCalls == 3
\* Longest text written as a string tag and most tags passed to write_ptu.
MaxStr == 9
MaxTags == 2
\* Largest value of a per-channel setting.
MaxSetting == 1
\* Most readFiFo calls of a measurement that return records or raise.
MaxReads == 3

\* --------------------------------------------------------------- constants
T2WRAPAROUND_V2 == 33554432
T3WRAPAROUND == 1024
bitmask_timetag == 33554431
bitmask_nsync == 1023
InitialCapacity == 256

VARIABLES
  \* decoder calls
  d_buffer, d_channel, d_rtype, d_pc, d_ret,
  \* a channel result fed with the buffers of one record stream
  mode, weak, stream, pos, buffer, calls, raised, t2, t3,
  \* an ExtendableTable
  tab, ghost, nAdded, nRemoved, tOps,
  \* a binnableTable
  bt, added, prevOp, lastOp, ret,
  \* a write_tag call
  w_key, w_value, w_pc, w_ret,
  \* a write_ptu call and the output file
  p_tags, p_data, p_file, p_pc, p_raised,
  \* a get_metadata call
  g_model, g_numChannels, g_settings, g_tags, g_pc,
  \* a measurement: the TH260 object, the acquisition thread, a get_records
  \* call, a wait_end_measure call, the device
  a_keep_buffer, a_local_buffer, a_records, a_read_position, a_running,
  a_stop_reason, f_pc, f_buffer, f_raised, r_pc, r_buffer_len, r_buffer,
  j_pc, fifo_reads, appended, manual

decodeVars == <<d_buffer, d_channel, d_rtype, d_pc, d_ret>>
resultVars == <<mode, weak, stream, pos, buffer, calls, raised, t2, t3>>
tableVars == <<tab, ghost, nAdded, nRemoved, tOps>>
binVars == <<bt, added, prevOp, lastOp, ret>>
tagVars == <<w_key, w_value, w_pc, w_ret>>
ptuVars == <<p_tags, p_data, p_file, p_pc, p_raised>>
metaVars == <<g_model, g_numChannels, g_settings, g_tags, g_pc>>
fillVars == <<f_pc, f_buffer, f_raised>>
readVars == <<r_pc, r_buffer_len, r_buffer>>
acqVars ==
  <<a_keep_buffer, a_local_buffer, a_records, a_read_position, a_running,
    a_stop_reason, fillVars, readVars, j_pc, fifo_reads, appended, manual>>
notAcq ==
  <<decodeVars, resultVars, tableVars, binVars, tagVars, ptuVars, metaVars>>
vars ==
  <<decodeVars, resultVars, tableVars, binVars, tagVars, ptuVars, metaVars,
    acqVars>>

\* ----------------------------------------------------------------- numbers
Limb == bitmask_timetag + 1
Zero3 == <<0, 0, 0>>
FromInt(n) == <<0, n \div Limb, n % Limb>>

\* Exact sum of two three-digit numbers.
Add3(a, b) ==
  LET s0 == a[3] + b[3]
      s1 == a[2] + b[2] + (s0 \div Limb)
  IN  <<a[1] + b[1] + (s1 \div Limb), s1 % Limb, s0 % Limb>>

\* The value modulo 2^32: what a uint32 holds.
Mod32(a) == <<0, a[2] % (2^7), a[3]>>

\* x << 25 on a Python integer.
Shl25(a) == <<a[2], a[3], 0>>

\* ----------------------------------------------------------------- records
Rec(special, channel, low) == <<special * 64 + channel, low>>
special(r) == r[1] \div 64
channelField(r) == r[1] % 64

\* buffer & bitmask_header, as a number
header(r) == <<0, r[1], 0>>
bit_overflow == <<0, 127, 0>>
x80000000 == <<0, 64, 0>>

\* ---------------------------------------------------------------- decoders
\* a[mask]: the elements of xs whose mask is set, in order (built by halves,
\* which keeps the evaluation shallow on long buffers).
RECURSIVE MaskedRange(_, _, _, _)
MaskedRange(xs, mask, lo, hi) ==
  IF lo > hi THEN <<>>
  ELSE IF lo = hi THEN (IF mask[lo] THEN <<xs[lo]>> ELSE <<>>)
  ELSE LET mid == (lo + hi) \div 2
       IN  MaskedRange(xs, mask, lo, mid) \o MaskedRange(xs, mask, mid + 1, hi)

Masked(xs, mask) == MaskedRange(xs, mask, 1, Len(xs))

\* Sum of xs[lo..hi] in uint32 arithmetic: every addition wraps modulo 2^32.
\* uint32 addition is associative, so the sum is taken by halves.
RECURSIVE SumU32(_, _, _)
SumU32(xs, lo, hi) ==
  IF lo > hi THEN Zero3
  ELSE IF lo = hi THEN Mod32(xs[lo])
  ELSE LET mid == (lo + hi) \div 2
       IN  Mod32(Add3(SumU32(xs, lo, mid), SumU32(xs, mid + 1, hi)))

\* np.cumsum(xs, dtype='uint32'): running sums, each held in 32 bits.
cumsum_uint32(xs) == [i \in 1..Len(xs) |-> SumU32(xs, 1, i)]

\* The header value a record must have to be selected.  For 'marker' the
\* source reads 0x80000000 + channel << 25, which Python groups as
\* (0x80000000 + channel) << 25.
bit_selected(channel, rtype) ==
  CASE rtype = "photon" -> Shl25(FromInt(channel - 1))
    [] rtype = "marker" -> Shl25(Add3(x80000000, FromInt(channel)))
    [] rtype = "sync" -> x80000000

read_T2_buffer(buf, channel, rtype) ==
  IF rtype \notin {"photon", "marker", "sync"}
  THEN [raised |-> "RuntimeError"]
  ELSE
    LET sel == bit_selected(channel, rtype)
        mask_overflows == [i \in 1..Len(buf) |-> header(buf[i]) = bit_overflow]
        mask_data == [i \in 1..Len(buf) |-> header(buf[i]) = sel]
        timetags == [i \in 1..Len(buf) |-> buf[i][2] % (bitmask_timetag + 1)]
        overflows_counts ==
          cumsum_uint32([i \in 1..Len(buf) |->
             IF mask_overflows[i] THEN FromInt(timetags[i]) ELSE Zero3])
    IN  IF Len(buf) = 0
        THEN [raised |-> "IndexError"]
        ELSE [raised |-> "none",
              n_overflows |-> Masked(overflows_counts, mask_data),
              timetag |-> Masked(timetags, mask_data),
              total_overflows |-> overflows_counts[Len(buf)]]

read_T3_buffer(buf, channel, rtype) ==
  IF rtype \notin {"photon", "marker"}
  THEN [raised |-> "RuntimeError"]
  ELSE
    LET sel == bit_selected(channel, rtype)
        mask_overflows == [i \in 1..Len(buf) |-> header(buf[i]) = bit_overflow]
        mask_data == [i \in 1..Len(buf) |-> header(buf[i]) = sel]
        dtime == [i \in 1..Len(buf) |-> buf[i][2] \div (bitmask_nsync + 1)]
        nsync == [i \in 1..Len(buf) |-> buf[i][2] % (bitmask_nsync + 1)]
        overflows_counts ==
          cumsum_uint32([i \in 1..Len(buf) |->
             IF mask_overflows[i] THEN FromInt(nsync[i]) ELSE Zero3])
    IN  IF Len(buf) = 0
        THEN [raised |-> "IndexError"]
        ELSE [raised |-> "none",
              n_overflows |-> Masked(overflows_counts, mask_data),
              dtime |-> Masked(dtime, mask_data),
              nsync |-> Masked(nsync, mask_data),
              total_overflows |-> overflows_counts[Len(buf)]]

\* The single-record readers.
read_T2_record(r) ==
  IF special(r) = 1
  THEN IF channelField(r) = 63
       THEN [raised |-> "none", kind |-> "overflow", channel |-> 0, timetag |-> r[2]]
       ELSE IF channelField(r) >= 1 /\ channelField(r) <= 15
       THEN [raised |-> "none", kind |-> "marker", channel |-> channelField(r),
             timetag |-> r[2]]
       ELSE IF channelField(r) = 0
       THEN [raised |-> "none", kind |-> "sync", channel |-> 0, timetag |-> r[2]]
       ELSE [raised |-> "RuntimeError"]
  ELSE [raised |-> "none", kind |-> "photon", channel |-> channelField(r) + 1,
        timetag |-> r[2]]

read_T3_record(r) ==
  LET dtime == r[2] \div (bitmask_nsync + 1)
      nsync == r[2] % (bitmask_nsync + 1)
  IN  IF special(r) = 1
      THEN IF channelField(r) = 63
           THEN [raised |-> "none", kind |-> "overflow", channel |-> 0,
                 dtime |-> dtime, nsync |-> nsync]
           ELSE IF channelField(r) >= 1 /\ channelField(r) <= 15
           THEN [raised |-> "none", kind |-> "marker", channel |-> channelField(r),
                 dtime |-> dtime, nsync |-> nsync]
           ELSE [raised |-> "RuntimeError"]
      ELSE [raised |-> "none", kind |-> "photon", channel |-> channelField(r) + 1,
            dtime |-> dtime, nsync |-> nsync]

\* ---------------------------------------------------------- ExtendableTable
\* An absent value (Python's None, a missing attribute) is <<>>, a present
\* value v is <<v>>.
None == <<>>
Some(v) == <<v>>

\* A table is a record: data is the storage (its length is the capacity),
\* size the logical length, empty the content np.empty leaves in a cell.
ExtendableTable(zero, empty) ==
  [data |-> [i \in 1..InitialCapacity |-> zero], size |-> 0, empty |-> empty]

\* 2 ** int(np.ceil(np.log2(new_size)))
CeilLog2(n) == CHOOSE k \in 0..30 : 2^k >= n /\ \A j \in 0..(k - 1) : 2^j < n

\* Mutant: the exponent rounded down instead of up.
new_capacity_floor(new_size) ==
  2^(CHOOSE k \in 0..30 : 2^k <= new_size /\ new_size < 2^(k + 1))

new_capacity(new_size) == 2^CeilLog2(new_size)

_inner_resize(t, new_size) ==
  IF new_size >= Len(t.data)
  THEN [t EXCEPT !.data = [i \in 1..new_capacity(new_size) |->
                             IF i <= t.size THEN t.data[i] ELSE t.empty]]
  ELSE t

\* Whether the slice assignment of add fits the storage: when it does not,
\* numpy raises ValueError and the size is not updated.
addFits(t, slice) ==
  t.size + Len(slice) <= Len(_inner_resize(t, t.size + Len(slice)).data)

add(t, slice) ==
  LET new_size == t.size + Len(slice)
      r == _inner_resize(t, new_size)
  IN  IF new_size <= Len(r.data)
      THEN [r EXCEPT !.data = [i \in 1..Len(r.data) |->
                                 IF i > t.size /\ i <= new_size
                                 THEN slice[i - t.size] ELSE r.data[i]],
                     !.size = new_size]
      ELSE r

len(t) == t.size
data(t) == [i \in 1..t.size |-> t.data[i]]

\* Mutant: the size shrinks but the remainder is not moved to the front.
remove_no_shift(t, nremove) == [t EXCEPT !.size = t.size - nremove]

remove(t, nremove) ==
  LET new_size == t.size - nremove
  IN  [t EXCEPT !.data = [i \in 1..Len(t.data) |->
                            IF i <= new_size THEN t.data[i + nremove]
                            ELSE t.data[i]],
                !.size = new_size]

\* ------------------------------------------------------------ binnableTable
binnableTable(zero, empty, bin_factor, only_bin) ==
  [data |-> [i \in 1..InitialCapacity |-> zero], size |-> 0, empty |-> empty,
   bin_factor |-> bin_factor, bin_read_position |-> 0, bin_counts |-> <<>>,
   only_bin |-> only_bin]

\* np.bincount(xs) of a non-empty sequence of naturals.
Max(S) == CHOOSE m \in S : \A x \in S : x <= m
bincount(xs) ==
  [b \in 1..(Max({xs[j] : j \in 1..Len(xs)}) + 1) |->
     Cardinality({j \in 1..Len(xs) : xs[j] = b - 1})]

\* Mutant: the read position is not reset in discard mode.
next_read_position_no_reset(t, newpos) == newpos

\* Mutant: the read position is left where it was.
next_read_position_stale(t, newpos) == t.bin_read_position

\* The read position bin_count leaves.
next_read_position(t, newpos) == IF t.only_bin THEN 0 ELSE newpos

\* Mutant: the retained counts are dropped.
merge_counts_drop_old(tally, old) == tally

\* bin_count[:len(old)] += old, where old is not longer than the tally.
merge_counts(tally, old) ==
  [b \in 1..Len(tally) |->
     IF b <= Len(old) THEN tally[b] + old[b] ELSE tally[b]]

\* Mutant: the counted timestamps are removed in retain mode too.
bin_count_discarding(t) ==
  LET newpos == t.size
      timetags == [j \in 1..(newpos - t.bin_read_position) |->
                     t.data[t.bin_read_position + j] \div t.bin_factor[1]]
      tally == bincount(timetags)
      merged == merge_counts(tally, t.bin_counts)
      counted == [t EXCEPT !.bin_counts = merged]
  IN  IF t.bin_factor = None
      THEN [raised |-> "RuntimeError", counts |-> <<>>, table |-> t]
      ELSE IF newpos = t.bin_read_position
      THEN [raised |-> "none", counts |-> t.bin_counts, table |-> t]
      ELSE IF Len(t.bin_counts) > Len(tally)
      THEN [raised |-> "ValueError", counts |-> <<>>, table |-> t]
      ELSE [raised |-> "none", counts |-> merged,
            table |-> [remove(counted, newpos) EXCEPT
                         !.bin_read_position = 0]]

\* bin_count: the error it ends with ("none" when it returns), the counts
\* it returns and the table it leaves.
bin_count(t) ==
  LET newpos == t.size
      timetags == [j \in 1..(newpos - t.bin_read_position) |->
                     t.data[t.bin_read_position + j] \div t.bin_factor[1]]
      tally == bincount(timetags)
      merged == merge_counts(tally, t.bin_counts)
      counted == [t EXCEPT !.bin_counts = merged]
      kept == IF t.only_bin THEN remove(counted, newpos) ELSE counted
  IN  IF t.bin_factor = None
      THEN [raised |-> "RuntimeError", counts |-> <<>>, table |-> t]
      ELSE IF newpos = t.bin_read_position
      THEN [raised |-> "none", counts |-> t.bin_counts, table |-> t]
      ELSE IF Len(t.bin_counts) > Len(tally)
      THEN [raised |-> "ValueError", counts |-> <<>>, table |-> t]
      ELSE [raised |-> "none", counts |-> merged,
            table |-> [kept EXCEPT
                         !.bin_read_position = next_read_position(t, newpos)]]

\* Mutant: the read position and the counts survive a new factor.
set_bin_factor_keep_position(t, bin_factor) ==
  IF t.only_bin
  THEN [raised |-> "NotImplementedError", counts |-> <<>>, table |-> t]
  ELSE [raised |-> "none", counts |-> <<>>,
        table |-> [t EXCEPT !.bin_factor = Some(bin_factor)]]

\* Mutant: the factor is replaced in discard mode as well.
set_bin_factor_unchecked(t, bin_factor) ==
  [raised |-> "none", counts |-> <<>>,
   table |-> [t EXCEPT !.bin_factor = Some(bin_factor),
                       !.bin_read_position = 0,
                       !.bin_counts = <<>>]]

set_bin_factor(t, bin_factor) ==
  IF t.only_bin
  THEN [raised |-> "NotImplementedError", counts |-> <<>>, table |-> t]
  ELSE [raised |-> "none", counts |-> <<>>,
        table |-> [t EXCEPT !.bin_factor = Some(bin_factor),
                            !.bin_read_position = 0,
                            !.bin_counts = <<>>]]

\* ------------------------------------------------------- T2Result, T3Result
\* The content np.empty leaves in a cell of a table of wide numbers.
Empty3 == <<0 - 1, 0 - 1, 0 - 1>>

T2Result(channel) ==
  [channel |-> channel,
   timetags |-> binnableTable(Zero3, Empty3, None, FALSE),
   n_overflows |-> Zero3]

\* self._n_overflows += total_overflows, total_overflows a uint32 scalar.
\* With the promotion rules of NumPy 2 (w) the sum stays a uint32 and
\* wraps; with the older rules it is an int64.
AccAdd(acc, total, w) ==
  IF w THEN Mod32(Add3(acc, total)) ELSE Add3(acc, total)

T2Result_add_buffer(r, buf, w) ==
  LET got == read_T2_buffer(buf, r.channel, "photon")
      n_overflows == [j \in 1..Len(got.n_overflows) |->
                        Add3(r.n_overflows, got.n_overflows[j])]
      stamps == [j \in 1..Len(n_overflows) |->
                   Add3(Shl25(n_overflows[j]), FromInt(got.timetag[j]))]
  IN  IF got.raised # "none" THEN r
      ELSE [r EXCEPT !.timetags = add(r.timetags, stamps),
                     !.n_overflows = AccAdd(r.n_overflows, got.total_overflows, w)]

\* T2Result.bin_count: return self._timetags.bin_count()
T2Result_bin_count(r) ==
  LET got == bin_count(r.timetags)
  IN  [raised |-> got.raised, counts |-> got.counts,
       result |-> [r EXCEPT !.timetags = got.table]]

\* __init__ sets no _n_overflows.
T3Result(channel) ==
  [channel |-> channel,
   nsyncs |-> binnableTable(Zero3, Empty3, Some(1), FALSE),
   dtimes |-> ExtendableTable(0, 0 - 1),
   n_overflows |-> None]

\* x * T3WRAPAROUND on a wide number.
Mul1024(a) ==
  LET half == Limb \div T3WRAPAROUND
  IN  <<a[1] * T3WRAPAROUND + (a[2] \div half),
        (a[2] % half) * T3WRAPAROUND + (a[3] \div half),
        (a[3] % half) * T3WRAPAROUND>>

\* The error add_buffer ends with, "none" when it returns.
T3Result_raises(r, buf) ==
  LET got == read_T3_buffer(buf, r.channel, "photon")
  IN  IF got.raised # "none" THEN got.raised
      ELSE IF r.n_overflows = None THEN "AttributeError"
      ELSE "none"

T3Result_add_buffer(r, buf, w) ==
  LET got == read_T3_buffer(buf, r.channel, "photon")
      acc == r.n_overflows[1]
      n_overflows == [j \in 1..Len(got.n_overflows) |->
                        Add3(acc, got.n_overflows[j])]
      stamps == [j \in 1..Len(n_overflows) |->
                   Add3(Mul1024(n_overflows[j]), FromInt(got.nsync[j]))]
  IN  IF T3Result_raises(r, buf) # "none" THEN r
      ELSE [r EXCEPT !.nsyncs = add(r.nsyncs, stamps),
                     !.dtimes = add(r.dtimes, got.dtime),
                     !.n_overflows = Some(AccAdd(acc, got.total_overflows, w))]

\* ------------------------------------------------------------ tag codec
\* Bytes are 0..255, byte strings are sequences of bytes. Identifiers and
\* texts are sequences of code points. A 32-bit code is <<high half, low
\* half>>.
BITSLEN_MAGIC == 8
BITSLEN_VERSION == 8
BITSLEN_TAG_ID == 32
BITSLEN_TAG_IDX == 4
BITSLEN_TAG_TYPECODE == 4
BITSLEN_TAG_VALUE == 8
TTTR_MAGIC == <<80, 81, 84, 84, 84, 82>>
FILE_VERSION == <<49, 46, 49, 46, 48, 48>>

File_GUID == <<70, 105, 108, 101, 95, 71, 85, 73, 68>>
Measurement_Mode ==
  <<77, 101, 97, 115, 117, 114, 101, 109, 101, 110, 116, 95, 77, 111, 100, 101>>
MeasDesc_Restart ==
  <<77, 101, 97, 115, 68, 101, 115, 99, 95, 82, 101, 115, 116, 97, 114, 116>>
MeasDesc_Resolution ==
  <<77, 101, 97, 115, 68, 101, 115, 99, 95, 82, 101, 115, 111, 108, 117, 116,
    105, 111, 110>>
HWInputChan_CFDLevel ==
  <<72, 87, 73, 110, 112, 117, 116, 67, 104, 97, 110, 95, 67, 70, 68, 76, 101,
    118, 101, 108>>
Header_End == <<72, 101, 97, 100, 101, 114, 95, 69, 110, 100>>
\* An identifier the table of tag types does not hold.
Int8Tag == <<73, 110, 116, 56, 84, 97, 103>>

type_code ==
  ("Empty8" :> <<65535, 8>>) @@ ("Bool8" :> <<0, 8>>) @@
  ("Int8" :> <<4096, 8>>) @@ ("BitSet64" :> <<4352, 8>>) @@
  ("Color8" :> <<4608, 8>>) @@ ("Float8" :> <<8192, 8>>) @@
  ("TDateTime" :> <<8448, 8>>) @@ ("Float8Array" :> <<8193, 65535>>) @@
  ("ASCII-String" :> <<16385, 65535>>) @@ ("Wide-String" :> <<16386, 65535>>) @@
  ("BinaryBlob" :> <<65535, 65535>>)

\* The entries of tag_types the model writes.
tag_types ==
  (File_GUID :> "ASCII-String") @@ (Measurement_Mode :> "Int8") @@
  (MeasDesc_Restart :> "Bool8") @@ (MeasDesc_Resolution :> "Float8") @@
  (HWInputChan_CFDLevel :> "Int8") @@ (Header_End :> "Empty8")

\* bytes(n): n zero bytes.
zeros(n) == [i \in 1..n |-> 0]

\* bstring + bytes(length - len(bstring)); the callers never pass a
\* longer bstring.
tab_string(bstring, length) == bstring \o zeros(length - Len(bstring))

\* n.to_bytes(length, byteorder='little') of 0 <= n < 2^31.
nat_to_bytes(n, length) ==
  [i \in 1..length |-> IF i <= 4 THEN (n \div (256 ^ (i - 1))) % 256 ELSE 0]

\* n.to_bytes(length, byteorder='little', signed=True), two's complement.
int_to_bytes(n, length) ==
  IF n >= 0 THEN nat_to_bytes(n, length)
  ELSE [i \in 1..length |-> 255 - nat_to_bytes((0 - n) - 1, length)[i]]

\* The four little-endian bytes of a 32-bit code.
code_to_bytes(c) == <<c[2] % 256, c[2] \div 256, c[1] % 256, c[1] \div 256>>

\* str.encode('UTF8') for code points below 0x800.
RECURSIVE encode_UTF8(_)
encode_UTF8(text) ==
  IF text = <<>> THEN <<>>
  ELSE LET c == Head(text)
       IN  (IF c < 128 THEN <<c>> ELSE <<192 + (c \div 64), 128 + (c % 64)>>)
           \o encode_UTF8(Tail(text))

\* struct.pack("<d", x) for the numbers the model writes.
struct_pack_d(x) ==
  CASE x = "0.0" -> <<0, 0, 0, 0, 0, 0, 0, 0>>
    [] x = "1.0" -> <<0, 0, 0, 0, 0, 0, 240, 63>>
    [] x = "-1.0" -> <<0, 0, 0, 0, 0, 0, 240, 191>>
    [] x = "42.0" -> <<0, 0, 0, 0, 0, 0, 69, 64>>
    [] x = "300.0" -> <<0, 0, 0, 0, 0, 192, 114, 64>>
    [] x = "2.5e-10" -> <<149, 214, 38, 232, 11, 46, 241, 61>>

\* float(n) of the integers the model writes.
float_of(n) ==
  CASE n = 0 -> "0.0" [] n = 1 -> "1.0" [] n = 0 - 1 -> "-1.0"
    [] n = 42 -> "42.0" [] n = 300 -> "300.0"

\* Python values: an int, a bool, a str, a float, a list of floats, a
\* bytes object, None.
IntV(n) == [kind |-> "int", v |-> n]
BoolV(b) == [kind |-> "bool", v |-> b]
StrV(text) == [kind |-> "str", v |-> text]
FloatV(x) == [kind |-> "float", v |-> x]
FloatsV(xs) == [kind |-> "floats", v |-> xs]
BytesV(bs) == [kind |-> "bytes", v |-> bs]
NoneV == [kind |-> "none"]

\* A key of the tag dictionary: an identifier, or (identifier, index).
Key(id, idx) == [id |-> id, idx |-> idx]

RECURSIVE pack_all(_)
pack_all(xs) ==
  IF xs = <<>> THEN <<>>
  ELSE struct_pack_d(Head(xs)) \o pack_all(Tail(xs))

\* length += (8 - length % 8) % 8
round_to_8(length) == length + ((8 - (length % 8)) % 8)

\* Mutant: the terminating null of a string is not counted.
string_length_no_null(raw, is_string) == Len(raw)

\* len(value), plus one for the null that terminates a string.
string_length(raw, is_string) == IF is_string THEN Len(raw) + 1 ELSE Len(raw)

Failed(error) == [raised |-> error, bytes |-> <<>>]
Written(bytes) == [raised |-> "none", bytes |-> bytes]

\* The bytes an array or string value is written as: the rounded length
\* and the zero-padded value.
write_array(raw, is_string) ==
  LET length == round_to_8(string_length(raw, is_string))
  IN  Written(nat_to_bytes(length, BITSLEN_TAG_VALUE) \o tab_string(raw, length))

\* The data part of write_tag: the bytes written for a value of type dtype,
\* or the error the conversion raises.
write_value(dtype, value) ==
  LET is_string == dtype \in {"ASCII-String", "Wide-String"}
      is_array == dtype \in {"Float8Array", "ASCII-String", "Wide-String",
                             "BinaryBlob"}
      k == value.kind
  IN  IF dtype = "Empty8" THEN Written(zeros(BITSLEN_TAG_VALUE))
      ELSE IF dtype \in {"Bool8", "Int8"}
      THEN IF k = "int" THEN Written(int_to_bytes(value.v, BITSLEN_TAG_VALUE))
           ELSE IF k = "bool"
           THEN Written(int_to_bytes(IF value.v THEN 1 ELSE 0, BITSLEN_TAG_VALUE))
           ELSE Failed("AttributeError")
      ELSE IF dtype = "Float8"
      THEN IF k = "float" THEN Written(struct_pack_d(value.v))
           ELSE IF k = "int" THEN Written(struct_pack_d(float_of(value.v)))
           ELSE IF k = "bool"
           THEN Written(struct_pack_d(float_of(IF value.v THEN 1 ELSE 0)))
           ELSE Failed("struct.error")
      ELSE IF dtype \in {"BitSet64", "Color8", "TDateTime"}
      THEN IF k = "bytes" THEN Written(value.v) ELSE Failed("TypeError")
      ELSE IF is_string
      THEN IF k = "str" THEN write_array(encode_UTF8(value.v), TRUE)
           ELSE Failed("AttributeError")
      ELSE IF dtype = "Float8Array"
      THEN IF k = "floats" THEN write_array(pack_all(value.v), FALSE)
           ELSE IF k = "bytes"
           THEN write_array(pack_all([i \in 1..Len(value.v) |->
                                        float_of(value.v[i])]), FALSE)
           ELSE IF k = "str"
           THEN IF value.v = <<>> THEN write_array(<<>>, FALSE)
                ELSE Failed("struct.error")
           ELSE Failed("TypeError")
      ELSE IF dtype = "BinaryBlob"
      THEN IF k = "bytes" THEN write_array(value.v, FALSE)
           ELSE Failed("TypeError")
      ELSE Failed("RuntimeError")

\* Mutant: the index field of a tag without index is left zero.
index_bytes_zero(idx) ==
  IF idx # None THEN code_to_bytes(idx[1]) ELSE zeros(BITSLEN_TAG_IDX)

\* The index field: the index, or all ones when there is none.
index_bytes(idx) ==
  IF idx # None THEN code_to_bytes(idx[1])
  ELSE [i \in 1..BITSLEN_TAG_IDX |-> 255]

write_tag(key, value) ==
  IF key.id \notin DOMAIN tag_types THEN Failed("KeyError")
  ELSE LET dtype == tag_types[key.id]
           tag_header == tab_string(encode_UTF8(key.id), BITSLEN_TAG_ID)
                     \o index_bytes(key.idx)
                     \o code_to_bytes(type_code[dtype])
           data_part == write_value(dtype, value)
       IN  IF data_part.raised # "none" THEN data_part
           ELSE Written(tag_header \o data_part.bytes)

\* The tag_header write_ptu builds from the tags [key, value], in order, or the
\* first error a tag raises.
RECURSIVE write_tags(_)
write_tags(tags) ==
  IF tags = <<>> THEN Written(<<>>)
  ELSE LET first == write_tag(Head(tags).key, Head(tags).value)
           rest == write_tags(Tail(tags))
       IN  IF first.raised # "none" THEN first
           ELSE IF rest.raised # "none" THEN rest
           ELSE Written(first.bytes \o rest.bytes)

\* Mutant: the file is opened, and so truncated, before the ptu_header is
\* built.
write_ptu_open_first(file, payload, tags) ==
  LET body == write_tags(tags)
      ptu_header == tab_string(encode_UTF8(TTTR_MAGIC), BITSLEN_MAGIC)
                \o tab_string(encode_UTF8(FILE_VERSION), BITSLEN_VERSION)
                \o body.bytes \o write_tag(Key(Header_End, None), NoneV).bytes
  IN  IF body.raised # "none"
      THEN [raised |-> body.raised, file |-> Some(<<>>)]
      ELSE [raised |-> "none", file |-> Some(ptu_header \o payload)]

\* write_ptu: the error it ends with and the file it leaves (None: no
\* file, Some(bytes): a file of these bytes).
write_ptu(file, payload, tags) ==
  LET body == write_tags(tags)
      ptu_header == tab_string(encode_UTF8(TTTR_MAGIC), BITSLEN_MAGIC)
                \o tab_string(encode_UTF8(FILE_VERSION), BITSLEN_VERSION)
                \o body.bytes \o write_tag(Key(Header_End, None), NoneV).bytes
  IN  IF body.raised # "none"
      THEN [raised |-> body.raised, file |-> file]
      ELSE [raised |-> "none", file |-> Some(ptu_header \o payload)]

\* ------------------------------------------------------------------ inputs
photon5 == Rec(0, 0, 5)
photon16 == Rec(0, 0, 16)
photonB == Rec(0, 1, 3 * 1024 + 5)
ovf3 == Rec(1, 63, 3)
ovfMax == Rec(1, 63, bitmask_timetag)
sync7 == Rec(1, 0, 7)
marker1 == Rec(1, 1, 9)
reserved16 == Rec(1, 16, 1)
RecordSet ==
  {photon5, photon16, photonB, ovf3, ovfMax, sync7, marker1, reserved16}

SeqsUpTo(S, n) == UNION {[1..k -> S] : k \in 0..n}

\* LongRun full-payload overflow records, then one photon.
LongBuffer == [i \in 1..(LongRun + 1) |-> IF i <= LongRun THEN ovfMax ELSE photon5]

DecodeBuffers == SeqsUpTo(RecordSet, MaxLen) \cup {LongBuffer}
Channels == 1..MaxChannel
RTypes == {"photon", "marker", "sync", "other"}

\* ------------------------------------------------- idle values of the parts
DecodeIdle ==
  /\ d_buffer = <<>> /\ d_channel = 1 /\ d_rtype = "photon"
  /\ d_pc = "idle" /\ d_ret = [raised |-> "not called"]
ResultIdle ==
  /\ mode = 0 /\ weak = FALSE /\ stream = <<>> /\ pos = 0 /\ buffer = <<>>
  /\ calls = 0 /\ raised = "none" /\ t2 = <<>> /\ t3 = <<>>
TableIdle ==
  /\ tab = <<>> /\ ghost = <<>> /\ nAdded = 0 /\ nRemoved = 0 /\ tOps = 0
BinIdle ==
  /\ bt = <<>> /\ added = <<>> /\ prevOp = "none" /\ lastOp = "none" /\ ret = <<>>
TagIdle ==
  /\ w_key = <<>> /\ w_value = <<>> /\ w_pc = "idle" /\ w_ret = <<>>
PtuIdle ==
  /\ p_tags = <<>> /\ p_data = <<>> /\ p_file = <<>> /\ p_pc = "idle"
  /\ p_raised = "none"

MetaIdle ==
  /\ g_model = "none" /\ g_numChannels = 0 /\ g_settings = <<>>
  /\ g_tags = <<>> /\ g_pc = "idle"

AcqIdle ==
  /\ a_keep_buffer = FALSE /\ a_local_buffer = <<>> /\ a_records = <<>>
  /\ a_read_position = 0 /\ a_running = FALSE /\ a_stop_reason = None
  /\ f_pc = "idle" /\ f_buffer = None /\ f_raised = "none"
  /\ r_pc = "idle" /\ r_buffer_len = 0 /\ r_buffer = <<>>
  /\ j_pc = "idle" /\ fifo_reads = 0 /\ appended = <<>> /\ manual = FALSE

\* ------------------------------------------------------------ decoder calls
InitDecode ==
  /\ d_buffer \in DecodeBuffers
  /\ d_channel \in Channels
  /\ d_rtype \in RTypes
  /\ d_pc = "start"
  /\ d_ret = [raised |-> "not called"]
  /\ ResultIdle /\ TableIdle /\ BinIdle /\ TagIdle /\ PtuIdle
  /\ MetaIdle /\ AcqIdle

CallReadT2Buffer ==
  /\ d_pc = "start"
  /\ d_pc' = "T2"
  /\ d_ret' = read_T2_buffer(d_buffer, d_channel, d_rtype)
  /\ UNCHANGED <<d_buffer, d_channel, d_rtype, resultVars, tableVars, binVars, tagVars, ptuVars, metaVars,
                 acqVars>>

CallReadT3Buffer ==
  /\ d_pc = "start"
  /\ d_pc' = "T3"
  /\ d_ret' = read_T3_buffer(d_buffer, d_channel, d_rtype)
  /\ UNCHANGED <<d_buffer, d_channel, d_rtype, resultVars, tableVars, binVars, tagVars, ptuVars, metaVars,
                 acqVars>>

NextDecode == CallReadT2Buffer \/ CallReadT3Buffer
SpecDecode == InitDecode /\ [][NextDecode]_vars

\* ------------------------------------------------------- channel results
\* One measurement: the records of `stream` reach the channel result in
\* consecutive buffers; pos records have been processed.
ResultStreams ==
  SeqsUpTo(RecordSet \ {sync7, reserved16}, MaxLen) \cup {LongBuffer}
Chunks(rem) == {k \in 0..rem : k <= MaxLen \/ k = rem \/ k = LongChunk}

InitResult ==
  /\ mode \in {2, 3}
  /\ weak \in BOOLEAN
  /\ stream \in ResultStreams
  /\ pos = 0 /\ buffer = <<>> /\ calls = 0 /\ raised = "none"
  /\ \E c \in Channels : t2 = T2Result(c) /\ t3 = T3Result(c)
  /\ DecodeIdle /\ TableIdle /\ BinIdle /\ TagIdle /\ PtuIdle
  /\ MetaIdle /\ AcqIdle

AddBufferT2 ==
  /\ mode = 2 /\ calls < MaxCalls
  /\ \E k \in Chunks(Len(stream) - pos) :
       LET buf == SubSeq(stream, pos + 1, pos + k)
           got == read_T2_buffer(buf, t2.channel, "photon")
       IN  /\ buffer' = buf
           /\ raised' = got.raised
           /\ t2' = T2Result_add_buffer(t2, buf, weak)
           /\ pos' = IF got.raised = "none" THEN pos + k ELSE pos
  /\ calls' = calls + 1
  /\ UNCHANGED <<mode, weak, stream, t3, decodeVars, tableVars, binVars, tagVars, ptuVars, metaVars,
                 acqVars>>

AddBufferT3 ==
  /\ mode = 3 /\ calls < MaxCalls
  /\ \E k \in Chunks(Len(stream) - pos) :
       LET buf == SubSeq(stream, pos + 1, pos + k)
           err == T3Result_raises(t3, buf)
       IN  /\ buffer' = buf
           /\ raised' = err
           /\ t3' = T3Result_add_buffer(t3, buf, weak)
           /\ pos' = IF err = "none" THEN pos + k ELSE pos
  /\ calls' = calls + 1
  /\ UNCHANGED <<mode, weak, stream, t2, decodeVars, tableVars, binVars, tagVars, ptuVars, metaVars,
                 acqVars>>

NextResult == AddBufferT2 \/ AddBufferT3
SpecResult == InitResult /\ [][NextResult]_vars

\* --------------------------------------------------- ExtendableTable calls
\* The k-th element ever added is the number k, so that any loss, repeat or
\* reordering shows in data().  ghost is the sequence the table stands for.
SliceLens ==
  {0, 1, SmallSlice, InitialCapacity - 1, InitialCapacity, InitialCapacity + 1,
   BigSlice}
RemoveCounts(size) == {n \in 0..size : n \in {0, 1, size \div 2, size}}

InitTable ==
  /\ tab = ExtendableTable(0, 0 - 1)
  /\ ghost = <<>> /\ nAdded = 0 /\ nRemoved = 0 /\ tOps = 0
  /\ DecodeIdle /\ ResultIdle /\ BinIdle /\ TagIdle /\ PtuIdle
  /\ MetaIdle /\ AcqIdle

TableAdd ==
  /\ tOps < MaxTableOps
  /\ \E n \in SliceLens :
       LET slice == [i \in 1..n |-> nAdded + i]
       IN  /\ tab' = add(tab, slice)
           /\ ghost' = IF addFits(tab, slice) THEN ghost \o slice ELSE ghost
           /\ nAdded' = IF addFits(tab, slice) THEN nAdded + n ELSE nAdded
  /\ tOps' = tOps + 1
  /\ UNCHANGED <<nRemoved, decodeVars, resultVars, binVars, tagVars, ptuVars, metaVars,
                 acqVars>>

TableRemove ==
  /\ tOps < MaxTableOps
  /\ \E n \in RemoveCounts(len(tab)) :
       /\ tab' = remove(tab, n)
       /\ ghost' = SubSeq(ghost, n + 1, Len(ghost))
       /\ nRemoved' = nRemoved + n
  /\ tOps' = tOps + 1
  /\ UNCHANGED <<nAdded, decodeVars, resultVars, binVars, tagVars, ptuVars, metaVars,
                 acqVars>>

NextTable == TableAdd \/ TableRemove
SpecTable == InitTable /\ [][NextTable]_vars

\* ----------------------------------------------------- binnableTable calls
\* added is every timestamp ever added, in order.
NoReturn == [raised |-> "none", counts |-> <<>>]
BinFactors == 1..MaxFactor

InitBin ==
  /\ \E f \in {None} \cup {Some(x) : x \in BinFactors}, ob \in BOOLEAN :
       bt = binnableTable(0, 0 - 1, f, ob)
  /\ added = <<>> /\ prevOp = "none" /\ lastOp = "none" /\ ret = NoReturn
  /\ DecodeIdle /\ ResultIdle /\ TableIdle /\ TagIdle /\ PtuIdle
  /\ MetaIdle /\ AcqIdle

BinAdd ==
  /\ \E slice \in SeqsUpTo(0..MaxT, MaxBinSlice) :
       /\ Len(added) + Len(slice) <= MaxBinTotal
       /\ bt' = add(bt, slice)
       /\ added' = added \o slice
  /\ prevOp' = lastOp /\ lastOp' = "add" /\ ret' = NoReturn
  /\ UNCHANGED <<decodeVars, resultVars, tableVars, tagVars, ptuVars, metaVars,
                 acqVars>>

BinCount ==
  /\ LET got == bin_count(bt)
     IN  /\ bt' = got.table
         /\ ret' = [raised |-> got.raised, counts |-> got.counts]
  /\ prevOp' = lastOp /\ lastOp' = "bin_count"
  /\ UNCHANGED <<added, decodeVars, resultVars, tableVars, tagVars, ptuVars, metaVars,
                 acqVars>>

SetBinFactor ==
  /\ \E f \in BinFactors :
       LET got == set_bin_factor(bt, f)
       IN  /\ bt' = got.table
           /\ ret' = [raised |-> got.raised, counts |-> got.counts]
  /\ prevOp' = lastOp /\ lastOp' = "set_bin_factor"
  /\ UNCHANGED <<added, decodeVars, resultVars, tableVars, tagVars, ptuVars, metaVars,
                 acqVars>>

NextBin == BinAdd \/ BinCount \/ SetBinFactor
SpecBin == InitBin /\ [][NextBin]_vars

\* ---------------------------------------------------------- write_tag calls
AllOnes == <<65535, 65535>>
TagIds ==
  {File_GUID, Measurement_Mode, MeasDesc_Restart, MeasDesc_Resolution,
   HWInputChan_CFDLevel, Header_End, Int8Tag}
TagIndexes == {None, Some(<<0, 0>>), Some(<<0, 1>>), Some(AllOnes)}
\* Texts of 'A', NUL and e-acute, and runs of 'A' around a multiple of 8.
Texts ==
  SeqsUpTo({65, 0, 233}, 2) \cup {[i \in 1..n |-> 65] : n \in 6..MaxStr}
TagValues ==
  {IntV(n) : n \in {42, 0 - 1, 0, 300}} \cup {BoolV(b) : b \in BOOLEAN}
  \cup {StrV(t) : t \in Texts} \cup {FloatV(x) : x \in {"1.0", "2.5e-10"}}
  \cup {FloatsV(xs) : xs \in {<<>>, <<"1.0">>, <<"1.0", "2.5e-10">>}}
  \cup {BytesV(bs) : bs \in {<<>>, <<1>>, <<1, 0>>}} \cup {NoneV}

InitTag ==
  /\ \E id \in TagIds, idx \in TagIndexes : w_key = Key(id, idx)
  /\ w_value \in TagValues
  /\ w_pc = "call" /\ w_ret = <<>>
  /\ DecodeIdle /\ ResultIdle /\ TableIdle /\ BinIdle /\ PtuIdle
  /\ MetaIdle /\ AcqIdle

CallWriteTag ==
  /\ w_pc = "call"
  /\ w_ret' = write_tag(w_key, w_value)
  /\ w_pc' = "done"
  /\ UNCHANGED <<w_key, w_value, decodeVars, resultVars, tableVars, binVars,
                 ptuVars, metaVars,
                 acqVars>>

NextTag == CallWriteTag
SpecTag == InitTag /\ [][NextTag]_vars

\* ---------------------------------------------------------- write_ptu calls
Tag(key, value) == [key |-> key, value |-> value]
\* The tags a dictionary passed to write_ptu is made of.
TagEntries ==
  {Tag(Key(File_GUID, None), StrV(<<65>>)),
   Tag(Key(File_GUID, None), StrV(<<65, 0>>)),
   Tag(Key(File_GUID, None), StrV(<<233, 65, 65, 65, 65, 65>>)),
   Tag(Key(Measurement_Mode, None), IntV(42)),
   Tag(Key(Measurement_Mode, None), StrV(<<65>>)),
   Tag(Key(MeasDesc_Restart, None), BoolV(TRUE)),
   Tag(Key(MeasDesc_Resolution, None), FloatV("2.5e-10")),
   Tag(Key(HWInputChan_CFDLevel, Some(<<0, 0>>)), IntV(0 - 1)),
   Tag(Key(HWInputChan_CFDLevel, Some(AllOnes)), IntV(300)),
   Tag(Key(HWInputChan_CFDLevel, None), IntV(300)),
   Tag(Key(Header_End, None), NoneV),
   Tag(Key(Int8Tag, None), IntV(42))}
\* Dictionaries: no key twice.
TagLists ==
  {ts \in SeqsUpTo(TagEntries, MaxTags) :
     \A i, j \in 1..Len(ts) : i # j => ts[i].key # ts[j].key}
\* The record array as the bytes of its buffer.
Payloads == {<<>>, <<5, 0, 0, 0, 3, 0, 0, 254>>}
\* The file before the first call: none, or one left by something else.
OldFile == <<1, 2, 3>>

InitPtu ==
  /\ p_file \in {None, Some(OldFile)}
  /\ p_tags = <<>> /\ p_data = <<>> /\ p_pc = "call" /\ p_raised = "none"
  /\ DecodeIdle /\ ResultIdle /\ TableIdle /\ BinIdle /\ TagIdle
  /\ MetaIdle /\ AcqIdle

WritePtu ==
  /\ p_pc = "call"
  /\ \E tags \in TagLists, payload \in Payloads :
       LET got == write_ptu(p_file, payload, tags)
       IN  /\ p_tags' = tags /\ p_data' = payload
           /\ p_file' = got.file /\ p_raised' = got.raised
  /\ p_pc' = "done"
  /\ UNCHANGED <<decodeVars, resultVars, tableVars, binVars, tagVars,
                 metaVars, acqVars>>

NextPtu == WritePtu
SpecPtu == InitPtu /\ [][NextPtu]_vars

\* ------------------------------------------------------------- get_metadata
MAXINPCHAN == 2
Models == {"TimeHarp 260 P", "TimeHarp 260 N"}

\* tags[key] = value, on a dictionary kept as its items in insertion order.
RECURSIVE dict_set(_, _, _)
dict_set(tags, key, value) ==
  IF tags = <<>> THEN <<Tag(key, value)>>
  ELSE IF Head(tags).key = key THEN <<Tag(key, value)>> \o Tail(tags)
  ELSE <<Head(tags)>> \o dict_set(Tail(tags), key, value)

\* The getters of the stored settings s; channel counts from 0.
getInputChannelOffset(s, channel) == s.inputChannelOffset[channel + 1]
getSyncCFD(s) == <<s.syncCFDLevel, s.syncCFDZeroCross>>
getInputCFD(s, channel) ==
  <<s.inputCFDLevel[channel + 1], s.inputCFDZeroCross[channel + 1]>>
getSyncEdgeTrg(s) == <<s.syncTriggerLevel, s.syncTriggerEdge>>
getInputEdgeTrg(s, channel) ==
  <<s.inputTriggerLevel[channel + 1], s.inputTriggerEdge[channel + 1]>>

\* for i in range(numChannels): tags['HWInputChan_Offset'] = ...
RECURSIVE offset_tags(_, _, _, _)
offset_tags(tags, s, i, numChannels) ==
  IF i >= numChannels THEN tags
  ELSE offset_tags(dict_set(tags, Key("HWInputChan_Offset", None),
                            getInputChannelOffset(s, i)),
                   s, i + 1, numChannels)

\* for i in range(numChannels): the two CFD tags of channel i.
RECURSIVE cfd_tags(_, _, _, _)
cfd_tags(tags, s, i, numChannels) ==
  IF i >= numChannels THEN tags
  ELSE LET level == getInputCFD(s, i)[1]
           zeroCross == getInputCFD(s, i)[2]
           t1 == dict_set(tags, Key("HWInputChan_CFDZeroCross", Some(i)),
                          zeroCross)
           t2a == dict_set(t1, Key("HWInputChan_CFDLevel", Some(i)), level)
       IN  cfd_tags(t2a, s, i + 1, numChannels)

\* for i in range(numChannels): the two trigger tags of channel i.
RECURSIVE trigger_tags(_, _, _, _)
trigger_tags(tags, s, i, numChannels) ==
  IF i >= numChannels THEN tags
  ELSE LET level == getInputEdgeTrg(s, i)[1]
           edge == getInputEdgeTrg(s, i)[2]
           t1 == dict_set(tags, Key("HWInpChan_TrgEdge", Some(i)), edge)
           t2a == dict_set(t1, Key("HWInpChan_TrgLevel", Some(i)), level)
       IN  trigger_tags(t2a, s, i + 1, numChannels)

\* The tags get_metadata adds for the input channels and the sync input of
\* the hardware model, after the fixed tags.
get_metadata(model, numChannels, s) ==
  LET offsets == offset_tags(<<>>, s, 0, numChannels)
      withCFD ==
        IF model = "TimeHarp 260 P"
        THEN cfd_tags(
               dict_set(dict_set(offsets, Key("HWSync_CFDZeroCross", None),
                                 getSyncCFD(s)[2]),
                        Key("HWSync_CFDLevel", None), getSyncCFD(s)[1]),
               s, 0, numChannels)
        ELSE offsets
  IN  IF model = "TimeHarp 260 N"
      THEN trigger_tags(
             dict_set(dict_set(withCFD, Key("HWSync_TrgEdge", None),
                               getSyncEdgeTrg(s)[2]),
                      Key("HWSync_TrgLevel", None), getSyncEdgeTrg(s)[1]),
             s, 0, numChannels)
      ELSE withCFD

\* The values a setting takes, and the settings of a device of n channels.
SettingValues == 0..MaxSetting
PerChannel(n) == [1..n -> SettingValues]
SettingsOf(n) ==
  [inputChannelOffset : PerChannel(n),
   syncCFDZeroCross : {0 - 10}, syncCFDLevel : {0 - 180},
   inputCFDZeroCross : PerChannel(n), inputCFDLevel : PerChannel(n),
   syncTriggerEdge : {0}, syncTriggerLevel : {0 - 50},
   inputTriggerEdge : PerChannel(n), inputTriggerLevel : PerChannel(n)]

InitMeta ==
  /\ g_model \in Models
  /\ g_numChannels \in 1..MAXINPCHAN
  /\ g_settings \in SettingsOf(g_numChannels)
  /\ g_tags = <<>> /\ g_pc = "call"
  /\ DecodeIdle /\ ResultIdle /\ TableIdle /\ BinIdle /\ TagIdle /\ PtuIdle
  /\ AcqIdle

GetMetadata ==
  /\ g_pc = "call"
  /\ g_tags' = get_metadata(g_model, g_numChannels, g_settings)
  /\ g_pc' = "done"
  /\ UNCHANGED <<g_model, g_numChannels, g_settings, decodeVars, resultVars,
                 tableVars, binVars, tagVars, ptuVars, acqVars>>

NextMeta == GetMetadata
SpecMeta == InitMeta /\ [][NextMeta]_vars

\* --------------------------------------------------- acquisition and readout
STOPREASON_TIMEOVER == 0
STOPREASON_MANUAL == 1
STOPREASON_ERROR == 3
STOPREASON_FIFO_OVERRUN == 0 - 2

\* A record array returned by readFiFo is named by a number: 0 is the array
\* of no records, k > 0 the k-th array that holds records.
array_len(array) == IF array = 0 THEN 0 ELSE 1

\* Mutant: the acquisition loop never looks at the running flag.
is_running_always(running) == TRUE

is_running(running) == running

\* self.__running = False; self._stop_reason = reason; stopMeas().
stop_measure(reason) ==
  /\ a_running' = FALSE
  /\ a_stop_reason' = Some(reason)

\* Mutant: the read position moves to the current end of the list.
read_position_current(buffer_len, current_len) == current_len

\* self._records_read_position = buffer_len
read_position_after(buffer_len, current_len) == buffer_len

\* Mutant: the whole list is deleted.
del_everything(local_buffer, first, last) == <<>>

\* del self._local_buffer[slice(first, last)]
del_slice(local_buffer, first, last) ==
  SubSeq(local_buffer, 1, first)
    \o SubSeq(local_buffer, last + 1, Len(local_buffer))

\* State after measure() started the acquisition thread.
InitAcq ==
  /\ a_keep_buffer \in BOOLEAN
  /\ a_local_buffer = <<>> /\ a_records = <<>> /\ a_read_position = 0
  /\ a_running = TRUE /\ a_stop_reason = None
  /\ f_pc = "while" /\ f_buffer = None /\ f_raised = "none"
  /\ r_pc = "idle" /\ r_buffer_len = 0 /\ r_buffer = <<>>
  /\ j_pc = "idle"
  /\ fifo_reads = 0 /\ appended = <<>> /\ manual = FALSE
  /\ DecodeIdle /\ ResultIdle /\ TableIdle /\ BinIdle /\ TagIdle /\ PtuIdle
  /\ MetaIdle

\* _fill_buffer: while self.is_running():
FillWhile ==
  /\ f_pc = "while"
  /\ f_pc' = IF is_running(a_running) THEN "readFiFo" ELSE "exit"
  /\ UNCHANGED <<a_keep_buffer, a_local_buffer, a_records, a_read_position,
                 a_running, a_stop_reason, f_buffer, f_raised, readVars,
                 j_pc, fifo_reads, appended, manual, notAcq>>

\* buffer = self._api.readFiFo() returns an array that holds records.
ReadData ==
  /\ f_pc = "readFiFo" /\ fifo_reads < MaxReads
  /\ fifo_reads' = fifo_reads + 1
  /\ f_buffer' = Some(fifo_reads + 1)
  /\ f_raised' = "none" /\ f_pc' = "save"
  /\ UNCHANGED <<a_keep_buffer, a_local_buffer, a_records, a_read_position,
                 a_running, a_stop_reason, readVars, j_pc, appended, manual,
                 notAcq>>

\* buffer = self._api.readFiFo() returns np.zeros(0).
ReadEmpty ==
  /\ f_pc = "readFiFo"
  /\ f_buffer' = Some(0)
  /\ f_raised' = "none" /\ f_pc' = "save"
  /\ UNCHANGED <<a_keep_buffer, a_local_buffer, a_records, a_read_position,
                 a_running, a_stop_reason, readVars, j_pc, fifo_reads,
                 appended, manual, notAcq>>

\* readFiFo raises TH260Error(0, "FiFo Overrun!"): the handler stops the
\* measurement and falls through to the save.
ReadOverrun ==
  /\ f_pc = "readFiFo" /\ fifo_reads < MaxReads
  /\ fifo_reads' = fifo_reads + 1
  /\ f_raised' = "FiFo Overrun!"
  /\ stop_measure(STOPREASON_FIFO_OVERRUN)
  /\ f_pc' = "save"
  /\ UNCHANGED <<a_keep_buffer, a_local_buffer, a_records, a_read_position,
                 f_buffer, readVars, j_pc, appended, manual, notAcq>>

\* readFiFo raises another TH260Error: the handler does nothing and falls
\* through to the save.
ReadError ==
  /\ f_pc = "readFiFo" /\ fifo_reads < MaxReads
  /\ fifo_reads' = fifo_reads + 1
  /\ f_raised' = "TH260Error"
  /\ f_pc' = "save"
  /\ UNCHANGED <<a_keep_buffer, a_local_buffer, a_records, a_read_position,
                 a_running, a_stop_reason, f_buffer, readVars, j_pc,
                 appended, manual, notAcq>>

\* if len(buffer) > 0: self._local_buffer.append(buffer); an unbound buffer
\* raises UnboundLocalError, which ends the thread.
FillSave ==
  /\ f_pc = "save"
  /\ IF f_buffer = None
     THEN /\ f_pc' = "crashed"
          /\ UNCHANGED <<a_local_buffer, appended>>
     ELSE IF array_len(f_buffer[1]) > 0
     THEN /\ a_local_buffer' = Append(a_local_buffer, f_buffer[1])
          /\ appended' = Append(appended, f_buffer[1])
          /\ f_pc' = "while"
     ELSE /\ f_pc' = "CTCStatus"
          /\ UNCHANGED <<a_local_buffer, appended>>
  /\ UNCHANGED <<a_keep_buffer, a_records, a_read_position, a_running,
                 a_stop_reason, f_buffer, f_raised, readVars, j_pc,
                 fifo_reads, manual, notAcq>>

\* ctcstatus = self._api.CTCStatus() is 0.
CTCRunning ==
  /\ f_pc = "CTCStatus"
  /\ f_pc' = "while"
  /\ UNCHANGED <<a_keep_buffer, a_local_buffer, a_records, a_read_position,
                 a_running, a_stop_reason, f_buffer, f_raised, readVars,
                 j_pc, fifo_reads, appended, manual, notAcq>>

\* ctcstatus > 0: self.stop_measure(STOPREASON_TIMEOVER); return.
CTCExpired ==
  /\ f_pc = "CTCStatus"
  /\ stop_measure(STOPREASON_TIMEOVER)
  /\ f_pc' = "exit"
  /\ UNCHANGED <<a_keep_buffer, a_local_buffer, a_records, a_read_position,
                 f_buffer, f_raised, readVars, j_pc, fifo_reads, appended,
                 manual, notAcq>>

\* CTCStatus raises TH260Error: except TH260Error:
\* self.stop_measure(STOPREASON_ERROR).
CTCError ==
  /\ f_pc = "CTCStatus"
  /\ stop_measure(STOPREASON_ERROR)
  /\ f_pc' = "exit"
  /\ UNCHANGED <<a_keep_buffer, a_local_buffer, a_records, a_read_position,
                 f_buffer, f_raised, readVars, j_pc, fifo_reads, appended,
                 manual, notAcq>>

Fill ==
  \/ FillWhile \/ ReadData \/ ReadEmpty \/ ReadOverrun \/ ReadError
  \/ FillSave \/ CTCRunning \/ CTCExpired \/ CTCError

\* stop_measure() called by the user, from another thread.
StopMeasure ==
  /\ ~manual
  /\ manual' = TRUE
  /\ stop_measure(STOPREASON_MANUAL)
  /\ UNCHANGED <<a_keep_buffer, a_local_buffer, a_records, a_read_position,
                 fillVars, readVars, j_pc, fifo_reads, appended, notAcq>>

\* wait_end_measure: if self.__running: ... join()
WaitEndMeasure ==
  /\ j_pc = "idle"
  /\ j_pc' = IF a_running THEN "join" ELSE "returned"
  /\ UNCHANGED <<a_keep_buffer, a_local_buffer, a_records, a_read_position,
                 a_running, a_stop_reason, fillVars, readVars, fifo_reads,
                 appended, manual, notAcq>>

\* self._measure_thread.join() returns when the thread has ended.
Join ==
  /\ j_pc = "join" /\ f_pc \in {"exit", "crashed"}
  /\ j_pc' = "returned"
  /\ UNCHANGED <<a_keep_buffer, a_local_buffer, a_records, a_read_position,
                 a_running, a_stop_reason, fillVars, readVars, fifo_reads,
                 appended, manual, notAcq>>

Wait == WaitEndMeasure \/ Join

\* get_records: buffer_len = len(self._local_buffer); return when the read
\* position is there already.
GetLen ==
  /\ r_pc = "idle"
  /\ IF a_read_position = Len(a_local_buffer)
     THEN UNCHANGED <<r_pc, r_buffer_len>>
     ELSE r_pc' = "concatenate" /\ r_buffer_len' = Len(a_local_buffer)
  /\ UNCHANGED <<a_keep_buffer, a_local_buffer, a_records, a_read_position,
                 a_running, a_stop_reason, fillVars, r_buffer, j_pc,
                 fifo_reads, appended, manual, notAcq>>

\* buffer = np.concatenate(self._local_buffer[buffer_slice])
GetConcatenate ==
  /\ r_pc = "concatenate"
  /\ r_buffer' = SubSeq(a_local_buffer, a_read_position + 1, r_buffer_len)
  /\ r_pc' = "add_buffer"
  /\ UNCHANGED <<a_keep_buffer, a_local_buffer, a_records, a_read_position,
                 a_running, a_stop_reason, fillVars, r_buffer_len, j_pc,
                 fifo_reads, appended, manual, notAcq>>

\* for channel in self._records: self._records[channel].add_buffer(buffer)
GetAddBuffer ==
  /\ r_pc = "add_buffer"
  /\ a_records' = a_records \o r_buffer
  /\ r_pc' = "advance"
  /\ UNCHANGED <<a_keep_buffer, a_local_buffer, a_read_position, a_running,
                 a_stop_reason, fillVars, r_buffer_len, r_buffer, j_pc,
                 fifo_reads, appended, manual, notAcq>>

\* if self._keep_buffer: move the read position; else: delete the slice and
\* reset the read position. The call returns.
GetAdvance ==
  /\ r_pc = "advance"
  /\ IF a_keep_buffer
     THEN /\ a_read_position' =
               read_position_after(r_buffer_len, Len(a_local_buffer))
          /\ UNCHANGED a_local_buffer
     ELSE /\ a_local_buffer' =
               del_slice(a_local_buffer, a_read_position, r_buffer_len)
          /\ a_read_position' = 0
  /\ r_pc' = "idle" /\ r_buffer_len' = 0 /\ r_buffer' = <<>>
  /\ UNCHANGED <<a_keep_buffer, a_records, a_running, a_stop_reason,
                 fillVars, j_pc, fifo_reads, appended, manual, notAcq>>

GetRecords == GetLen \/ GetConcatenate \/ GetAddBuffer \/ GetAdvance

NextAcq == Fill \/ StopMeasure \/ Wait \/ GetRecords
SpecAcq == InitAcq /\ [][NextAcq]_vars
\* The acquisition thread is scheduled and the device calls it makes
\* return; join() returns once the thread has ended.
SpecAcqFair == SpecAcq /\ WF_vars(Fill) /\ WF_vars(Join)

\* ------------------------------------------------- what the claims refer to
\* a <= b on wide numbers.
Leq3(a, b) ==
  \/ a[1] < b[1]
  \/ a[1] = b[1] /\ a[2] < b[2]
  \/ a[1] = b[1] /\ a[2] = b[2] /\ a[3] <= b[3]

\* Exact (unbounded) sum of xs[lo..hi].
RECURSIVE SumExact(_, _, _)
SumExact(xs, lo, hi) ==
  IF lo > hi THEN Zero3
  ELSE IF lo = hi THEN xs[lo]
  ELSE LET mid == (lo + hi) \div 2
       IN  Add3(SumExact(xs, lo, mid), SumExact(xs, mid + 1, hi))

IsOverflow(r) == special(r) = 1 /\ channelField(r) = 63
\* The low-order payload of a record: 25-bit timetag (T2), 10-bit nsync (T3).
Payload(r, m) == IF m = "T2" THEN r[2] ELSE r[2] % 1024
\* Sum of the payloads of the overflow records of buf at positions < p.
OverflowsBefore(buf, p, m) ==
  SumExact([i \in 1..Len(buf) |->
              IF IsOverflow(buf[i]) THEN FromInt(Payload(buf[i], m)) ELSE Zero3],
           1, p - 1)
OverflowsIn(buf, m) == OverflowsBefore(buf, Len(buf) + 1, m)
\* The positions of the records of buf that satisfy P, ascending.
Positions(buf, P(_)) ==
  Masked([i \in 1..Len(buf) |-> i], [i \in 1..Len(buf) |-> P(buf[i])])
\* What the claims expect a buffer decoder to return for the records at ps:
\* the entries, and the entries with the total.
ExpectedEntries(buf, ps, m, got) ==
  /\ got.raised = "none"
  /\ Len(got.n_overflows) = Len(ps)
  /\ \A j \in 1..Len(ps) :
       /\ got.n_overflows[j] = OverflowsBefore(buf, ps[j], m)
       /\ IF m = "T2"
          THEN got.timetag[j] = buf[ps[j]][2]
          ELSE /\ got.dtime[j] = buf[ps[j]][2] \div 1024
               /\ got.nsync[j] = buf[ps[j]][2] % 1024
ExpectedAt(buf, ps, m, got) ==
  /\ ExpectedEntries(buf, ps, m, got)
  /\ got.total_overflows = OverflowsIn(buf, m)
\* No 32-bit wrap can occur while summing the overflow payloads of buf.
NoWrap(buf, m) == OverflowsIn(buf, m) = Mod32(OverflowsIn(buf, m))
IsReserved(r, m) ==
  /\ special(r) = 1
  /\ \/ channelField(r) >= 16 /\ channelField(r) <= 62
     \/ m = "T3" /\ channelField(r) = 0
Decoded == d_pc \in {"T2", "T3"}

\* C1: for a non-empty buffer, channel c >= 1 and kind 'photon', both buffer
\* decoders return, in record order, one entry per record with special = 0
\* and channel field c - 1, its overflow count being the exact sum of the
\* payloads of the overflow records before it, and the total being the exact
\* sum of all overflow payloads of the buffer.
C1_PhotonDecodeExact ==
  (Decoded /\ d_rtype = "photon" /\ d_buffer # <<>>) =>
    ExpectedAt(d_buffer,
               Positions(d_buffer,
                 LAMBDA r : special(r) = 0 /\ channelField(r) = d_channel - 1),
               d_pc, d_ret)

\* The same statement on the buffers whose overflow payloads sum to less
\* than 2^32: there the decoders do what C1 says.
PhotonDecodeBelowWrap ==
  (Decoded /\ d_rtype = "photon" /\ d_buffer # <<>> /\ NoWrap(d_buffer, d_pc)) =>
    ExpectedAt(d_buffer,
               Positions(d_buffer,
                 LAMBDA r : special(r) = 0 /\ channelField(r) = d_channel - 1),
               d_pc, d_ret)

\* C4: decoding a buffer that holds a record with special = 1 and a channel
\* field in the reserved range 16..0x3E (in T3 also channel 0) fails with
\* the malformed-record error; the record is never skipped.
C4_ReservedRecordFails ==
  (/\ Decoded
   /\ d_rtype \in (IF d_pc = "T2" THEN {"photon", "marker", "sync"}
                                  ELSE {"photon", "marker"})
   /\ \E i \in 1..Len(d_buffer) : IsReserved(d_buffer[i], d_pc))
  => d_ret.raised = "RuntimeError"

\* The single-record readers do reject every reserved record.
RecordReadersRejectReserved ==
  \A i \in 1..Len(d_buffer) :
    /\ IsReserved(d_buffer[i], "T2") <=> read_T2_record(d_buffer[i]).raised # "none"
    /\ IsReserved(d_buffer[i], "T3") <=> read_T3_record(d_buffer[i]).raised # "none"

\* C5: for kind 'marker' and marker code m in 1..15 both buffer decoders
\* return exactly the records with special = 1 and channel field m, in
\* order, each with the overflow count accumulated before it; for kind
\* 'sync' read_T2_buffer returns exactly the records with special = 1 and
\* channel field 0.
C5_MarkerSyncDecode ==
  /\ (Decoded /\ d_rtype = "marker" /\ d_buffer # <<>>) =>
       ExpectedEntries(d_buffer,
                       Positions(d_buffer,
                         LAMBDA r : special(r) = 1 /\ channelField(r) = d_channel),
                       d_pc, d_ret)
  /\ (d_pc = "T2" /\ d_rtype = "sync" /\ d_buffer # <<>>) =>
       ExpectedEntries(d_buffer,
                       Positions(d_buffer,
                         LAMBDA r : special(r) = 1 /\ channelField(r) = 0),
                       d_pc, d_ret)

\* The 'sync' half of C5 on the buffers below the 32-bit wrap.
SyncDecodeBelowWrap ==
  (d_pc = "T2" /\ d_rtype = "sync" /\ d_buffer # <<>> /\ NoWrap(d_buffer, "T2")) =>
    ExpectedEntries(d_buffer,
                    Positions(d_buffer,
                      LAMBDA r : special(r) = 1 /\ channelField(r) = 0),
                    d_pc, d_ret)

\* With kind 'marker' the decoders select nothing at all.
MarkerSelectsNothing ==
  (Decoded /\ d_rtype = "marker" /\ d_buffer # <<>>) =>
    d_ret.raised = "none" /\ d_ret.n_overflows = <<>>

\* The stamps the claims expect a T2Result of channel c to store for buf,
\* counting the overflows from `before`.
IsPhotonOf(r, c) == special(r) = 0 /\ channelField(r) = c - 1
ExpectedStampsT2(buf, c, before) ==
  LET ps == Positions(buf, LAMBDA r : IsPhotonOf(r, c))
  IN  [j \in 1..Len(ps) |->
         Add3(Shl25(Add3(before, OverflowsBefore(buf, ps[j], "T2"))),
              FromInt(buf[ps[j]][2]))]
ExpectedStampsT3(buf, c, before) ==
  LET ps == Positions(buf, LAMBDA r : IsPhotonOf(r, c))
  IN  [j \in 1..Len(ps) |->
         Add3(Mul1024(Add3(before, OverflowsBefore(buf, ps[j], "T3"))),
              FromInt(buf[ps[j]][2] % 1024))]
ExpectedDtimes(buf, c) ==
  LET ps == Positions(buf, LAMBDA r : IsPhotonOf(r, c))
  IN  [j \in 1..Len(ps) |-> buf[ps[j]][2] \div 1024]
Processed == SubSeq(stream, 1, pos)
FirstCallT2 == mode = 2 /\ calls = 1 /\ buffer # <<>>

\* C2: on a fresh T2Result of channel c, add_buffer(B) appends for each
\* photon record of channel c, in order, (exact sum of the overflow payloads
\* before it in B) * 0x2000000 + its 25-bit timetag; a buffer without
\* overflow records stores the raw timetags; and B = [0x00000005,
\* 0xFE000003, 0x00000010] with c = 1 stores [5, 3 * 0x2000000 + 16] and
\* leaves the accumulator at 3.
C2_FreshAddBufferStamps ==
  FirstCallT2 =>
    /\ raised = "none"
    /\ data(t2.timetags) = ExpectedStampsT2(buffer, t2.channel, Zero3)
    /\ (\A i \in 1..Len(buffer) : ~IsOverflow(buffer[i])) =>
         data(t2.timetags) =
           [j \in 1..len(t2.timetags) |->
              FromInt(buffer[Positions(buffer,
                        LAMBDA r : IsPhotonOf(r, t2.channel))[j]][2])]
    /\ (buffer = <<photon5, ovf3, photon16>> /\ t2.channel = 1) =>
         /\ data(t2.timetags) = << <<0, 0, 5>>, <<0, 3, 16>> >>
         /\ t2.n_overflows = <<0, 0, 3>>

\* C2 on the buffers below the 32-bit wrap: there add_buffer stores what
\* C2 says.
FreshAddBufferBelowWrap ==
  (FirstCallT2 /\ NoWrap(buffer, "T2")) =>
    /\ raised = "none"
    /\ data(t2.timetags) = ExpectedStampsT2(buffer, t2.channel, Zero3)
    /\ t2.n_overflows = OverflowsIn(buffer, "T2")
    /\ (buffer = <<photon5, ovf3, photon16>> /\ t2.channel = 1) =>
         /\ data(t2.timetags) = << <<0, 0, 5>>, <<0, 3, 16>> >>
         /\ t2.n_overflows = <<0, 0, 3>>
ScenarioReached ==
  FirstCallT2 /\ buffer = <<photon5, ovf3, photon16>> /\ t2.channel = 1

\* C3: however the stream is split into consecutive non-empty buffers, the
\* add_buffer calls leave the stored timetags and the accumulator that one
\* add_buffer of the whole processed stream leaves on a fresh result.
C3_SplitIndependence ==
  (mode = 2 /\ pos > 0) =>
    LET whole == T2Result_add_buffer(T2Result(t2.channel), Processed, weak)
    IN  /\ data(t2.timetags) = data(whole.timetags)
        /\ t2.n_overflows = whole.n_overflows

\* C3 on the streams below the 32-bit wrap.
SplitIndependenceBelowWrap ==
  (mode = 2 /\ pos > 0 /\ NoWrap(Processed, "T2")) =>
    LET whole == T2Result_add_buffer(T2Result(t2.channel), Processed, weak)
    IN  /\ data(t2.timetags) = data(whole.timetags)
        /\ t2.n_overflows = whole.n_overflows
SplitReached == mode = 2 /\ calls >= 2 /\ pos = Len(stream) /\ Len(buffer) < pos

\* C6: a T2Result and a T3Result both have the accumulator 0 right after
\* creation, so the first add_buffer on a fresh T3Result returns, stores
\* (prefix overflow count) * 0x400 + nsync in the sync-count table and the
\* dtime in the delay table for each matching photon, and leaves the two
\* tables equally long.
C6_FreshAccumulatorZero ==
  /\ (mode = 2 /\ calls = 0) => t2.n_overflows = Zero3
  /\ (mode = 3 /\ calls = 0) => t3.n_overflows = Some(Zero3)
  /\ (mode = 3 /\ calls = 1 /\ buffer # <<>>) =>
       /\ raised = "none"
       /\ data(t3.nsyncs) = ExpectedStampsT3(buffer, t3.channel, Zero3)
       /\ data(t3.dtimes) = ExpectedDtimes(buffer, t3.channel)
       /\ len(t3.nsyncs) = len(t3.dtimes)

\* The T2 half of C6 holds.
FreshT2AccumulatorZero == (mode = 2 /\ calls = 0) => t2.n_overflows = Zero3
\* Every add_buffer on a T3Result raises and stores nothing.
T3AddBufferAlwaysRaises ==
  (mode = 3 /\ calls > 0) =>
    /\ raised \in {"AttributeError", "IndexError"}
    /\ len(t3.nsyncs) = 0 /\ len(t3.dtimes) = 0 /\ t3.n_overflows = None

\* C7: after any add_buffer calls the accumulator is non-negative and is the
\* exact sum of the payloads of all overflow records of all processed
\* buffers (so it never decreases): neither the per-buffer uint32 running
\* sum nor the accumulator wraps modulo 2^32.
C7_AccumulatorExact ==
  mode = 2 =>
    /\ Leq3(Zero3, t2.n_overflows)
    /\ t2.n_overflows = OverflowsIn(Processed, "T2")

\* C7 on the streams below the 32-bit wrap.
AccumulatorExactBelowWrap ==
  (mode = 2 /\ NoWrap(Processed, "T2")) =>
    t2.n_overflows = OverflowsIn(Processed, "T2")
\* The accumulator never decreases where it is an int64.
AccumulatorMonotone ==
  [][(mode = 2 /\ ~weak) => Leq3(t2.n_overflows, t2'.n_overflows)]_vars
\* C7's 'never smaller than before the call', whatever the build.
AccumulatorMonotoneAnyBuild ==
  [][mode = 2 => Leq3(t2.n_overflows, t2'.n_overflows)]_vars

\* C8: after any add and remove calls (0 <= n <= length), data() is the
\* concatenation of the added slices in call order without the removed
\* leading elements, also across reallocations, and len() is the number of
\* elements added minus the number removed.
C8_TableIsQueue ==
  tOps > 0 =>
    /\ data(tab) = ghost
    /\ data(tab) = [i \in 1..(nAdded - nRemoved) |-> nRemoved + i]
    /\ len(tab) = nAdded - nRemoved
\* Elements were added across a reallocation and some were then removed.
C8_Reached ==
  /\ Len(tab.data) > InitialCapacity /\ nRemoved > 0 /\ len(tab) > InitialCapacity
  /\ data(tab) = ghost

capacity == Len(tab.data)
IsPowerOfTwo(c) == \E k \in 0..30 : c = 2^k
SmallestPowerOfTwoFrom(n) ==
  CHOOSE c \in {2^k : k \in 0..30} :
    c >= n /\ \A d \in {2^k : k \in 0..30} : d >= n => c <= d
\* C9: the capacity is always a power of two >= the size; an add whose new
\* size exceeds the capacity sets it to the smallest power of two >= the new
\* size, any other add or remove leaves it unchanged; it never decreases.
C9_Capacity ==
  /\ [](IsPowerOfTwo(capacity) /\ capacity >= len(tab))
  /\ [][/\ capacity' >= capacity
        /\ IF len(tab)' > capacity
           THEN capacity' = SmallestPowerOfTwoFrom(len(tab)')
           ELSE capacity' = capacity]_vars
\* The capacity has grown past the next power of two in one add.
C9_Reached == capacity >= 4 * InitialCapacity /\ len(tab) > 2 * InitialCapacity

\* C10: with a bin factor set, a bin_count() that directly follows a
\* bin_count() returns the same counts and leaves the counts, the read
\* position and the buffer as they were, in retain and in discard mode.
C10_BinCountIdempotent ==
  [][(lastOp = "bin_count" /\ lastOp' = "bin_count" /\ bt.bin_factor # None) =>
       (ret' = ret /\ bt' = bt)]_vars
\* Two bin_count() calls in a row have returned counts of added data.
C10_Reached ==
  /\ prevOp = "bin_count" /\ lastOp = "bin_count"
  /\ ret.raised = "none" /\ Len(ret.counts) > 1
  /\ bt.bin_factor # None
\* The same in discard mode, where the first call emptied the buffer.
C10_ReachedDiscard == C10_Reached /\ bt.only_bin /\ len(bt) = 0
\* The same in retain mode, where the timestamps are all still stored.
C10_ReachedRetain == C10_Reached /\ ~bt.only_bin /\ len(bt) > 1

\* The histogram of xs under factor f: slot i counts the x with x \div f = i.
Histogram(xs, f) ==
  IF xs = <<>> THEN <<>>
  ELSE [b \in 1..((Max({xs[j] : j \in 1..Len(xs)}) \div f) + 1) |->
          Cardinality({j \in 1..Len(xs) : xs[j] \div f = b - 1})]
\* What bin_count() returns on a fresh aggregator holding all of xs.
FreshBinCount(xs) ==
  bin_count(add(binnableTable(0, 0 - 1, bt.bin_factor, bt.only_bin), xs))

\* C11: with a bin factor set, whatever was added and counted before, a
\* bin_count() returns the counts that one bin_count() returns on a fresh
\* aggregator after one add of everything added so far; the later
\* timestamps need not reach the highest bin of the earlier ones.
C11_IncrementalBinning ==
  (lastOp = "bin_count" /\ bt.bin_factor # None) =>
    /\ ret.raised = "none"
    /\ ret.counts = FreshBinCount(added).counts
    /\ ret.counts = Histogram(added, bt.bin_factor[1])

\* Incremental binning agrees with one-shot binning whenever bin_count()
\* returns.
IncrementalBinningWhenReturning ==
  (lastOp = "bin_count" /\ bt.bin_factor # None /\ ret.raised = "none") =>
    /\ ret.counts = FreshBinCount(added).counts
    /\ ret.counts = Histogram(added, bt.bin_factor[1])
\* bin_count() raises exactly when the new tally is shorter than the
\* retained counts.
BinCountRaisesOnShortTally ==
  [][(lastOp' = "bin_count" /\ bt.bin_factor # None) =>
       (ret'.raised = "ValueError" <=>
          /\ bt.bin_read_position < len(bt)
          /\ Len(Histogram(SubSeq(data(bt), bt.bin_read_position + 1, len(bt)),
                            bt.bin_factor[1])) < Len(bt.bin_counts))]_vars

\* C12: whatever add, bin_count and set_bin_factor calls were made, in
\* retain and in discard mode, 0 <= read position <= buffer size.
C12_ReadPositionInBuffer ==
  0 <= bt.bin_read_position /\ bt.bin_read_position <= len(bt)
\* A discarding bin_count has emptied a buffer it counted.
C12_Reached ==
  /\ bt.only_bin /\ lastOp = "bin_count" /\ ret.raised = "none"
  /\ Len(added) > 1 /\ len(bt) = 0 /\ bt.bin_read_position = 0

\* C13: in discard mode, after every bin_count() that returns, the buffer
\* is empty, the read position is 0 and counts[i] is the number of
\* timestamps ever added with t \div bin_factor = i.
C13_DiscardCountsEverything ==
  (lastOp = "bin_count" /\ bt.only_bin /\ bt.bin_factor # None
     /\ ret.raised = "none") =>
    /\ len(bt) = 0
    /\ bt.bin_read_position = 0
    /\ ret.counts = Histogram(added, bt.bin_factor[1])
    /\ bt.bin_counts = ret.counts
\* Timestamps discarded by an earlier bin_count() are in the counts of a
\* later one that counted new data.
C13_Reached ==
  /\ lastOp = "bin_count" /\ prevOp = "add" /\ bt.only_bin
  /\ ret.raised = "none" /\ Len(added) = MaxBinTotal /\ len(bt) = 0
  /\ \E b \in 1..Len(ret.counts) : ret.counts[b] > 1

\* C14: in retain mode set_bin_factor(f) empties the counts and sets the
\* read position to 0 without changing the buffer, and the next bin_count()
\* (directly, or after one more add) returns the histogram of every
\* retained timestamp under f.
C14_SetBinFactorRebins ==
  /\ [][(lastOp' = "set_bin_factor" /\ ~bt.only_bin) =>
          /\ ret'.raised = "none"
          /\ bt'.bin_counts = <<>> /\ bt'.bin_read_position = 0
          /\ bt'.bin_factor # None /\ bt'.bin_factor[1] \in BinFactors
          /\ data(bt') = data(bt) /\ len(bt') = len(bt)]_vars
  /\ [][(/\ lastOp' = "bin_count" /\ ~bt.only_bin
         /\ \/ lastOp = "set_bin_factor"
            \/ lastOp = "add" /\ prevOp = "set_bin_factor") =>
          /\ ret'.raised = "none"
          /\ ret'.counts = Histogram(data(bt), bt.bin_factor[1])
          /\ data(bt) = added]_vars
\* Counts were taken, the factor was set and the stored timestamps were
\* counted again.
C14_Reached ==
  /\ lastOp = "bin_count" /\ prevOp = "set_bin_factor" /\ ~bt.only_bin
  /\ len(bt) = MaxBinTotal /\ bt.bin_read_position = len(bt)
  /\ ret.raised = "none" /\ Len(ret.counts) > 1

\* C15: set_bin_factor in discard mode and bin_count without a bin factor
\* raise and leave the factor, the counts, the read position and the buffer
\* as they were.
C15_InvalidConfigurationRaises ==
  /\ [][(lastOp' = "set_bin_factor" /\ bt.only_bin) =>
          (ret'.raised = "NotImplementedError" /\ bt' = bt)]_vars
  /\ [][(lastOp' = "bin_count" /\ bt.bin_factor = None) =>
          (ret'.raised = "RuntimeError" /\ bt' = bt)]_vars
\* Both calls have failed on a discarding table that holds timestamps.
C15_Reached ==
  /\ lastOp = "bin_count" /\ prevOp = "set_bin_factor" /\ bt.only_bin
  /\ ret.raised = "RuntimeError" /\ bt.bin_factor = None /\ len(bt) > 1

\* ---- the tag section of a file, read back by the format of the container
\* The number a little-endian byte string holds (below 2^31).
RECURSIVE nat_from_bytes(_)
nat_from_bytes(bs) ==
  IF bs = <<>> THEN 0 ELSE Head(bs) + 256 * nat_from_bytes(Tail(bs))
\* The signed number of 8 little-endian bytes.
int_from_bytes(bs) ==
  IF bs[8] >= 128
  THEN 0 - (1 + nat_from_bytes([i \in 1..4 |-> 255 - bs[i]]))
  ELSE nat_from_bytes(SubSeq(bs, 1, 4))
\* The bytes before the first zero byte.
RECURSIVE UpToNull(_)
UpToNull(bs) ==
  IF bs = <<>> \/ Head(bs) = 0 THEN <<>> ELSE <<Head(bs)>> \o UpToNull(Tail(bs))
RECURSIVE decode_UTF8(_)
decode_UTF8(bs) ==
  IF bs = <<>> THEN <<>>
  ELSE IF Head(bs) < 128 THEN <<Head(bs)>> \o decode_UTF8(Tail(bs))
  ELSE <<(Head(bs) - 192) * 64 + (bs[2] - 128)>> \o decode_UTF8(Tail(Tail(bs)))
IsArrayType(dtype) ==
  dtype \in {"Float8Array", "ASCII-String", "Wide-String", "BinaryBlob"}
Doubles == {"0.0", "1.0", "-1.0", "42.0", "300.0", "2.5e-10"}
\* The tag that starts after the first p bytes of bs, and its length.
ReadTag(bs, p) ==
  LET id == decode_UTF8(UpToNull(SubSeq(bs, p + 1, p + 32)))
      idxb == SubSeq(bs, p + 33, p + 36)
      idx == IF idxb = <<255, 255, 255, 255>> THEN None
             ELSE Some(<<idxb[3] + 256 * idxb[4], idxb[1] + 256 * idxb[2]>>)
      codeb == SubSeq(bs, p + 37, p + 40)
      dtype == CHOOSE d \in DOMAIN type_code :
                 type_code[d] = <<codeb[3] + 256 * codeb[4], codeb[1] + 256 * codeb[2]>>
      field == SubSeq(bs, p + 41, p + 48)
      extra == IF IsArrayType(dtype) THEN nat_from_bytes(SubSeq(field, 1, 4)) ELSE 0
      body == SubSeq(bs, p + 49, p + 48 + extra)
      value == CASE dtype = "Empty8" -> NoneV
                 [] dtype = "Int8" -> IntV(int_from_bytes(field))
                 [] dtype = "Bool8" -> BoolV(int_from_bytes(field) # 0)
                 [] dtype = "Float8" ->
                      FloatV(CHOOSE x \in Doubles : struct_pack_d(x) = field)
                 [] dtype \in {"ASCII-String", "Wide-String"} ->
                      StrV(decode_UTF8(UpToNull(body)))
                 [] OTHER -> BytesV(body)
  IN  [id |-> id, idx |-> idx, dtype |-> dtype, value |-> value,
       size |-> 48 + extra]
\* The tags from offset p up to and without the first Header_End, and the
\* offset of the payload.
RECURSIVE ReadTags(_, _)
ReadTags(bs, p) ==
  LET t == ReadTag(bs, p)
  IN  IF t.id = Header_End THEN [tags |-> <<>>, payload_at |-> p + t.size]
      ELSE LET rest == ReadTags(bs, p + t.size)
           IN  [tags |-> <<[id |-> t.id, idx |-> t.idx, dtype |-> t.dtype,
                            value |-> t.value]>> \o rest.tags,
                payload_at |-> rest.payload_at]
\* What was passed to write_ptu, as the reader should find it.
PassedTags ==
  [i \in 1..Len(p_tags) |->
     [id |-> p_tags[i].key.id, idx |-> p_tags[i].key.idx,
      dtype |-> tag_types[p_tags[i].key.id], value |-> p_tags[i].value]]
Wrote == p_pc = "done" /\ p_raised = "none"
FileBytes == p_file[1]
\* The encodings of the passed tags, one after the other.
RECURSIVE EncodedTags(_)
EncodedTags(tags) ==
  IF tags = <<>> THEN <<>>
  ELSE write_tag(Head(tags).key, Head(tags).value).bytes \o EncodedTags(Tail(tags))
MagicAndVersion == <<80, 81, 84, 84, 84, 82, 0, 0, 49, 46, 49, 46, 48, 48, 0, 0>>
HeaderEndBytes ==
  <<72, 101, 97, 100, 101, 114, 95, 69, 110, 100>> \o [i \in 1..22 |-> 0]
  \o <<255, 255, 255, 255>> \o <<8, 0, 255, 255>> \o [i \in 1..8 |-> 0]
HasHeaderEnd(tags) == \E i \in 1..Len(tags) : tags[i].key.id = Header_End

\* C16: the file write_ptu leaves is the 8-byte magic, the 8-byte version,
\* the encoding of every passed tag in order, the Header_End tag and the
\* payload unmodified; Header_End occurs once and is the last tag before
\* the payload, so that a reader finds the payload right after the first
\* Header_End, whatever tags were passed.
C16_FileLayout ==
  Wrote =>
    /\ p_file # None
    /\ FileBytes = MagicAndVersion \o EncodedTags(p_tags) \o HeaderEndBytes
                     \o p_data
    /\ ~HasHeaderEnd(p_tags)
    /\ LET read == ReadTags(FileBytes, 16)
       IN  /\ Len(read.tags) = Len(p_tags)
           /\ SubSeq(FileBytes, read.payload_at + 1, Len(FileBytes)) = p_data

\* The layout of C16 without the uniqueness of Header_End: what write_ptu
\* does write.
FileLayoutAsWritten ==
  Wrote =>
    /\ p_file # None
    /\ FileBytes = MagicAndVersion \o EncodedTags(p_tags) \o HeaderEndBytes
                     \o p_data
\* A reader finds the payload when the caller passed no Header_End.
PayloadFoundWithoutHeaderEnd ==
  (Wrote /\ ~HasHeaderEnd(p_tags)) =>
    LET read == ReadTags(FileBytes, 16)
    IN  /\ Len(read.tags) = Len(p_tags)
        /\ SubSeq(FileBytes, read.payload_at + 1, Len(FileBytes)) = p_data

TagWritten == w_pc = "done" /\ w_ret.raised = "none"
\* The array or string type a value of this kind may be written as.
ArrayTypesOf(value) ==
  CASE value.kind = "str" -> {"ASCII-String", "Wide-String"}
    [] value.kind = "bytes" -> {"BinaryBlob"}
    [] value.kind = "floats" -> {"Float8Array"}
    [] OTHER -> {}
\* The bytes of the value before padding, and 1 for a string's null.
RawBytes(value) ==
  CASE value.kind = "str" -> encode_UTF8(value.v)
    [] value.kind = "bytes" -> value.v
    [] value.kind = "floats" -> pack_all(value.v)
NullLength(value) == IF value.kind = "str" THEN 1 ELSE 0
\* bs is an 8-byte length L, the smallest multiple of 8 >= n, followed by
\* exactly L bytes: raw and zero padding.
IsPaddedArray(bs, raw, n) ==
  /\ Len(bs) >= 8
  /\ LET L == nat_from_bytes(SubSeq(bs, 1, 4))
     IN  /\ SubSeq(bs, 5, 8) = <<0, 0, 0, 0>>
         /\ L % 8 = 0 /\ L >= n /\ L - 8 < n
         /\ Len(bs) = 8 + L
         /\ SubSeq(bs, 9, 8 + Len(raw)) = raw
         /\ \A i \in (9 + Len(raw))..Len(bs) : bs[i] = 0

\* C17: for an array or string tag write_tag stores a length L that is the
\* smallest multiple of 8 >= the byte length of the value (plus 1 for the
\* null of a string), followed by exactly L bytes, the value and zero
\* padding; so every encoded tag, and a header made of it, has a length
\* that is a multiple of 8.
C17_ArrayLengthRounded ==
  /\ (w_pc = "done" /\ w_key.id \in DOMAIN tag_types
        /\ tag_types[w_key.id] \in ArrayTypesOf(w_value)) =>
       /\ w_ret.raised = "none"
       /\ IsPaddedArray(SubSeq(w_ret.bytes, 41, Len(w_ret.bytes)),
                        RawBytes(w_value),
                        Len(RawBytes(w_value)) + NullLength(w_value))
  /\ w_pc = "done" =>
       \A dtype \in ArrayTypesOf(w_value) :
         /\ write_value(dtype, w_value).raised = "none"
         /\ IsPaddedArray(write_value(dtype, w_value).bytes, RawBytes(w_value),
                          Len(RawBytes(w_value)) + NullLength(w_value))
  /\ TagWritten =>
       /\ Len(w_ret.bytes) % 8 = 0
       /\ LET one == write_ptu(None, <<>>, <<Tag(w_key, w_value)>>)
          IN  one.raised = "none" /\ Len(one.file[1]) % 8 = 0
\* A text of 8 bytes was written: its null needs a second block of 8.
C17_Reached ==
  /\ TagWritten /\ w_key.id = File_GUID /\ w_value.kind = "str"
  /\ Len(encode_UTF8(w_value.v)) = 8 /\ Len(w_ret.bytes) = 48 + 16

Int8TagBytes(idxb) ==
  <<73, 110, 116, 56, 84, 97, 103>> \o [i \in 1..25 |-> 0] \o idxb
  \o <<8, 0, 0, 16>> \o <<42, 0, 0, 0, 0, 0, 0, 0>>
\* C18: writing the tag of id "Int8Tag", type Int8 and value 42 without
\* index yields the 48 bytes: id zero-padded to 32, FF FF FF FF, the type
\* code 0x10000008 little-endian, 42 as 8-byte little-endian signed
\* integer; with an index only the index field differs: the index as
\* 4-byte little-endian integer.
C18_Int8TagBytes ==
  (w_pc = "done" /\ w_key.id = Int8Tag /\ w_value = IntV(42)) =>
    /\ w_ret.raised = "none"
    /\ Len(w_ret.bytes) = 48
    /\ w_key.idx = None => w_ret.bytes = Int8TagBytes(<<255, 255, 255, 255>>)
    /\ w_key.idx = Some(<<0, 1>>) => w_ret.bytes = Int8TagBytes(<<1, 0, 0, 0>>)

\* The identifier Int8Tag is not in the table of tag types: write_tag
\* raises KeyError for it, whatever the value.
UnknownIdRaisesKeyError ==
  (w_pc = "done" /\ w_key.id = Int8Tag) =>
    w_ret = [raised |-> "KeyError", bytes |-> <<>>]
\* The layout of C18 for an identifier the table gives the type Int8.
MeasurementModeBytes ==
  (w_pc = "done" /\ w_key.id = Measurement_Mode /\ w_value = IntV(42)) =>
    /\ w_ret.raised = "none"
    /\ w_key.idx = None =>
         w_ret.bytes = Measurement_Mode \o [i \in 1..16 |-> 0]
                        \o <<255, 255, 255, 255>> \o <<8, 0, 0, 16>>
                        \o <<42, 0, 0, 0, 0, 0, 0, 0>>
    /\ w_key.idx = Some(<<0, 1>>) =>
         w_ret.bytes = Measurement_Mode \o [i \in 1..16 |-> 0]
                        \o <<1, 0, 0, 0>> \o <<8, 0, 0, 16>>
                        \o <<42, 0, 0, 0, 0, 0, 0, 0>>
\* An Int8 tag was written with an index.
C18_Reached ==
  /\ TagWritten /\ w_key = Key(Measurement_Mode, Some(<<0, 1>>))
  /\ w_value = IntV(42) /\ Len(w_ret.bytes) = 48

\* C19: for every tag list write_ptu accepts, reading the written tag
\* section back by the format (32-byte id, 4-byte index, 4-byte type
\* code, 8-byte value or rounded length and payload) gives every tag's id,
\* index, type and value as they were passed.
C19_RoundTrip ==
  Wrote => ReadTags(FileBytes, 16).tags = PassedTags

\* Values that the written bytes tell apart: no Header_End among the tags,
\* no index of all ones, no text holding a null.
Representable(tags) ==
  /\ ~HasHeaderEnd(tags)
  /\ \A i \in 1..Len(tags) :
       /\ tags[i].key.idx # Some(AllOnes)
       /\ tags[i].value.kind = "str" =>
            \A j \in 1..Len(tags[i].value.v) : tags[i].value.v[j] # 0
\* The round trip holds for these.
RoundTripOfRepresentable ==
  (Wrote /\ Representable(p_tags)) => ReadTags(FileBytes, 16).tags = PassedTags
\* A text with a null is written as the bytes of the text without it.
NullTextCollides ==
  write_tag(Key(File_GUID, None), StrV(<<65, 0>>))
    = write_tag(Key(File_GUID, None), StrV(<<65>>))
\* An index of all ones is written as the bytes of no index.
AllOnesIndexCollides ==
  write_tag(Key(HWInputChan_CFDLevel, Some(AllOnes)), IntV(300))
    = write_tag(Key(HWInputChan_CFDLevel, None), IntV(300))
TagCollisions ==
  p_pc = "done" => (NullTextCollides /\ AllOnesIndexCollides)

\* C20: when a passed tag has an id the table of tag types does not hold,
\* write_ptu raises and the file is as before the call: not created, not
\* truncated, no byte written.
C20_UnknownTagWritesNothing ==
  [][(p_pc = "call" /\ p_pc' = "done"
        /\ \E i \in 1..Len(p_tags') : p_tags'[i].key.id \notin DOMAIN tag_types) =>
       (p_raised' # "none" /\ p_file' = p_file)]_vars
\* Any failing write_ptu leaves the file as it was.
FailedWriteKeepsFile ==
  [][(p_pc = "call" /\ p_pc' = "done" /\ p_raised' # "none") =>
       p_file' = p_file]_vars
\* The unknown tag came second, after a tag that could be encoded, and
\* the file that existed before is intact.
C20_Reached ==
  /\ p_pc = "done" /\ p_raised = "KeyError" /\ Len(p_tags) = 2
  /\ p_tags[1].key.id \in DOMAIN tag_types /\ p_tags[2].key.id = Int8Tag
  /\ p_file = Some(OldFile) /\ Len(p_data) > 0

\* ------------------------------------------------------------------- C21
\* The indexed tags channel i of a device of this model must have: its
\* input offset and its discriminator or trigger settings.
ChannelTags(model, s, i) ==
  {Tag(Key("HWInputChan_Offset", Some(i)), s.inputChannelOffset[i + 1])}
  \cup (IF model = "TimeHarp 260 P"
        THEN {Tag(Key("HWInputChan_CFDLevel", Some(i)),
                  s.inputCFDLevel[i + 1]),
              Tag(Key("HWInputChan_CFDZeroCross", Some(i)),
                  s.inputCFDZeroCross[i + 1])}
        ELSE {Tag(Key("HWInpChan_TrgLevel", Some(i)),
                  s.inputTriggerLevel[i + 1]),
              Tag(Key("HWInpChan_TrgEdge", Some(i)),
                  s.inputTriggerEdge[i + 1])})

\* The dictionary holds this tag, and no other tag of its key.
HoldsOnce(tags, tag) ==
  /\ \E k \in 1..Len(tags) : tags[k] = tag
  /\ Cardinality({k \in 1..Len(tags) : tags[k].key = tag.key}) = 1

\* C21: the tags get_metadata builds for a device of N input channels hold,
\* for every per-channel setting and every channel i in 0..N-1, one indexed
\* tag (id, i) with the value of channel i.
C21_PerChannelTags ==
  g_pc = "done" =>
    \A i \in 0..(g_numChannels - 1) :
      \A tag \in ChannelTags(g_model, g_settings, i) :
        HoldsOnce(g_tags, tag)

\* The discriminator and trigger settings are indexed per channel; the input
\* offset is one tag without index that holds the last channel's value.
DiscriminatorTagsIndexed ==
  g_pc = "done" =>
    /\ \A i \in 0..(g_numChannels - 1) :
         \A tag \in ChannelTags(g_model, g_settings, i) :
           tag.key.id # "HWInputChan_Offset" => HoldsOnce(g_tags, tag)
    /\ HoldsOnce(g_tags,
                 Tag(Key("HWInputChan_Offset", None),
                     g_settings.inputChannelOffset[g_numChannels]))

\* ------------------------------------------------------------------- C22
IsPrefix(a, b) == Len(a) <= Len(b) /\ a = SubSeq(b, 1, Len(a))

\* C22: whatever the interleaving of the acquisition thread's appends and
\* the get_records calls, the buffers passed to add_buffer are the appended
\* buffers, each once and in append order, with none skipped: between calls
\* everything up to the read position has been passed (keep_buffer=True), or
\* everything that is no longer in the list (keep_buffer=False), and a call
\* passes every buffer that was in the list when it started.
C22_EachBufferOnce ==
  /\ IsPrefix(a_records, appended)
  /\ r_pc = "idle" =>
       IF a_keep_buffer
       THEN /\ a_local_buffer = appended
            /\ a_records = SubSeq(appended, 1, a_read_position)
       ELSE /\ a_read_position = 0
            /\ appended = a_records \o a_local_buffer
  /\ r_pc = "advance" =>
       IF a_keep_buffer
       THEN a_records = SubSeq(appended, 1, r_buffer_len)
       ELSE /\ a_read_position = 0
            /\ appended =
                 a_records \o SubSeq(a_local_buffer, r_buffer_len + 1,
                                     Len(a_local_buffer))

\* A get_records call is about to delete what it processed while the
\* thread has appended another buffer since the call started.
C22_Reached ==
  /\ ~a_keep_buffer /\ r_pc = "advance"
  /\ Len(a_local_buffer) > r_buffer_len
  /\ Len(appended) > Len(a_local_buffer)

\* The same with keep_buffer=True, in a second call.
C22_ReachedKeep ==
  /\ a_keep_buffer /\ r_pc = "advance" /\ a_read_position > 0
  /\ Len(a_local_buffer) > r_buffer_len

\* ------------------------------------------------------------------- C23
\* A step of a get_records call.
ReaderStep == r_pc' # r_pc

\* C23: during a measurement get_records never changes the list of raw
\* buffers: it reads the range from the read position to the length it
\* observed and moves the read position there, and the acquisition thread
\* changes no element that has been read.
C23_ReaderNeverMutates ==
  [][/\ ReaderStep => a_local_buffer' = a_local_buffer
     /\ ~ReaderStep => IsPrefix(a_local_buffer, a_local_buffer')]_vars

\* With keep_buffer=True get_records never changes the list of raw buffers
\* and moves the read position to the length it observed; with
\* keep_buffer=False it deletes from the list exactly the buffers it passed
\* to add_buffer, in its last step, and nothing else. The acquisition
\* thread only appends.
ReaderDeletesOnlyWhatItRead ==
  [][/\ ReaderStep /\ a_keep_buffer =>
          /\ a_local_buffer' = a_local_buffer
          /\ r_pc = "advance" => a_read_position' = r_buffer_len
     /\ ReaderStep /\ ~a_keep_buffer =>
          IF r_pc = "advance"
          THEN a_local_buffer = r_buffer \o a_local_buffer'
          ELSE a_local_buffer' = a_local_buffer
     /\ ~ReaderStep => IsPrefix(a_local_buffer, a_local_buffer')]_vars

\* A call with keep_buffer=False has deleted what it processed and left a
\* buffer that was appended during the call.
C23_Reached ==
  /\ ~a_keep_buffer /\ r_pc = "idle"
  /\ a_records # <<>> /\ a_local_buffer # <<>>

\* ------------------------------------------------------------------- C25
\* The buffers of a sequence, as a set.
Elements(seq) == {seq[i] : i \in 1..Len(seq)}

\* C25: in one measurement the acquisition thread appends a buffer only in
\* an iteration whose readFiFo call succeeded, and never a buffer that it
\* has appended before.
C25_AppendsOnlyFreshBuffers ==
  [][appended' # appended =>
       /\ f_raised = "none"
       /\ appended'[Len(appended')] \notin Elements(appended)]_vars

\* ------------------------------------------------------------------- C26
\* C26: when readFiFo raises, the loop stops and the cause is recorded: a
\* FIFO overrun leaves is_running() false with STOPREASON_FIFO_OVERRUN, any
\* other device error leaves it false with STOPREASON_ERROR, the thread makes
\* no further readFiFo call, and a recorded overrun or error is not
\* overwritten by STOPREASON_TIMEOVER.
C26_ErrorStopsAndIsRecorded ==
  [][/\ f_raised' = "FiFo Overrun!" /\ f_pc = "readFiFo" =>
          ~a_running' /\ a_stop_reason' = Some(STOPREASON_FIFO_OVERRUN)
     /\ f_raised' = "TH260Error" /\ f_pc = "readFiFo" =>
          ~a_running' /\ a_stop_reason' = Some(STOPREASON_ERROR)
     /\ f_raised # "none" => f_pc' # "readFiFo"
     /\ a_stop_reason \in {Some(STOPREASON_FIFO_OVERRUN),
                           Some(STOPREASON_ERROR)} =>
          a_stop_reason' # Some(STOPREASON_TIMEOVER)]_vars

\* A FIFO overrun stops the measurement at once with
\* STOPREASON_FIFO_OVERRUN, and an error of CTCStatus ends the thread with
\* STOPREASON_ERROR.
OverrunAndCTCErrorRecorded ==
  [][/\ f_raised' = "FiFo Overrun!" /\ f_pc = "readFiFo" =>
          ~a_running' /\ a_stop_reason' = Some(STOPREASON_FIFO_OVERRUN)
     /\ f_pc = "CTCStatus" /\ f_pc' = "exit" =>
          ~a_running'
          /\ a_stop_reason' \in {Some(STOPREASON_TIMEOVER),
                                 Some(STOPREASON_ERROR)}]_vars

\* ------------------------------------------------------------------- C27
\* C27: once wait_end_measure() has returned the acquisition thread appends
\* nothing more to the list of raw buffers.
C27_NoAppendAfterWait ==
  [][j_pc = "returned" => appended' = appended]_vars

\* When wait_end_measure() returns from join(), the thread has ended and
\* appends nothing more.
NoAppendAfterJoin ==
  [][(j_pc = "join" /\ j_pc' = "returned") \/ f_pc \in {"exit", "crashed"}
       => f_pc' = f_pc /\ (f_pc' \in {"exit", "crashed"})]_vars

\* ------------------------------------------------------------------- C28
\* The acquisition thread has left its loop, is_running() is false and a
\* stop reason is set.
Terminated ==
  /\ f_pc \in {"exit", "crashed"}
  /\ ~is_running(a_running) /\ a_stop_reason # None

\* C28: when the acquisition thread is scheduled fairly, once stop_measure
\* has been called or an expired acquisition time was seen on an empty read
\* (either clears the running flag), the measurement terminates: the thread
\* leaves its loop, is_running() is false with a stop reason set, and a
\* caller blocked in measure() or wait_end_measure() returns.
C28_EventuallyTerminates ==
  (~a_running) ~> (Terminated /\ j_pc # "join")

\* The thread left its loop after a stop_measure() of the user, and the
\* caller that waited in join() has returned.
C28_Reached ==
  /\ manual /\ f_pc = "exit" /\ j_pc = "returned"
  /\ fifo_reads > 0 /\ a_stop_reason = Some(STOPREASON_MANUAL)

\* The same after an expired acquisition time.
C28_ReachedTimeover ==
  /\ ~manual /\ f_pc = "exit" /\ j_pc = "returned"
  /\ a_stop_reason = Some(STOPREASON_TIMEOVER)

\* ------------------------------------------------------------------- C24
\* The record reader of measurement mode m.
read_record(r, m) == IF m = "T2" THEN read_T2_record(r) ELSE read_T3_record(r)
\* Every record of buf is one the record reader accepts.
WellFormed(buf, m) ==
  \A i \in 1..Len(buf) : read_record(buf[i], m).raised = "none"
\* The running total of a forward scan before position p: the payloads of
\* the records classified 'overflow' so far, summed without a width.
RunningTotal(buf, p, m) ==
  SumExact([i \in 1..Len(buf) |->
              LET rec == read_record(buf[i], m)
              IN  IF rec.kind = "overflow"
                  THEN FromInt(IF m = "T2" THEN rec.timetag ELSE rec.nsync)
                  ELSE Zero3],
           1, p - 1)
\* The buffer decoder returned what the forward scan emits for the photons
\* of channel c.
AgreesWithScan(buf, c, m, got) ==
  LET ps == Positions(buf, LAMBDA r : /\ read_record(r, m).kind = "photon"
                                      /\ read_record(r, m).channel = c)
  IN  /\ got.raised = "none"
      /\ Len(got.n_overflows) = Len(ps)
      /\ \A j \in 1..Len(ps) :
           /\ got.n_overflows[j] = RunningTotal(buf, ps[j], m)
           /\ IF m = "T2"
              THEN got.timetag[j] = read_record(buf[ps[j]], m).timetag
              ELSE /\ got.dtime[j] = read_record(buf[ps[j]], m).dtime
                   /\ got.nsync[j] = read_record(buf[ps[j]], m).nsync
      /\ got.total_overflows = RunningTotal(buf, Len(buf) + 1, m)

\* C24: for a non-empty buffer of well-formed records and every channel,
\* the buffer decoder called with kind 'photon' returns the entries and the
\* total of a forward scan that classifies each record with the record
\* reader, adds the payload of each 'overflow' record to a running total and
\* emits (running total, payload) for each photon of the channel; for T2 and
\* for T3.
C24_BufferDecoderMatchesScan ==
  (/\ Decoded /\ d_rtype = "photon" /\ d_buffer # <<>>
   /\ WellFormed(d_buffer, d_pc)) =>
    AgreesWithScan(d_buffer, d_channel, d_pc, d_ret)

\* The same on the buffers whose overflow payloads sum to less than 2^32.
ScanAgreesBelowWrap ==
  (/\ Decoded /\ d_rtype = "photon" /\ d_buffer # <<>>
   /\ WellFormed(d_buffer, d_pc) /\ NoWrap(d_buffer, d_pc)) =>
    AgreesWithScan(d_buffer, d_channel, d_pc, d_ret)

\* ------------------------------------------------------------------- C29
\* What a buffer decoder returns for a buffer it selects nothing from and
\* that holds no overflow.
NothingDecoded(got) ==
  /\ got.raised = "none"
  /\ got.n_overflows = <<>>
  /\ got.total_overflows = Zero3

\* C29: decoding an empty buffer is a no-op: read_T2_buffer and
\* read_T3_buffer return empty sequences and total overflow 0, and
\* add_buffer with an empty buffer does not raise and leaves the stored
\* timetags and the overflow accumulator of the channel result unchanged.
C29_EmptyBufferNoOp ==
  [][(buffer' = <<>> /\ calls' = calls + 1) =>
       /\ NothingDecoded(IF mode = 2
                         THEN read_T2_buffer(buffer', t2.channel, "photon")
                         ELSE read_T3_buffer(buffer', t3.channel, "photon"))
       /\ raised' = "none"
       /\ t2' = t2 /\ t3' = t3]_vars

\* add_buffer with an empty buffer raises IndexError and leaves the channel
\* result as it was.
EmptyBufferRaises ==
  [][(buffer' = <<>> /\ calls' = calls + 1) =>
       /\ raised' = "IndexError"
       /\ t2' = t2 /\ t3' = t3]_vars

\* ------------------------------------------------------------------- C30
\* A T2Result whose buffer is the aggregator bt.
ResultOf(table) ==
  [channel |-> 1, timetags |-> table, n_overflows |-> FromInt(Len(added))]

\* C30: in retain mode bin_count() changes nothing but the counts and the
\* read position of the aggregator: the contents, the length and the
\* capacity of the buffer, and the overflow accumulator of the channel
\* result that owns it, are as before, so the timestamps read are the same
\* after any number of bin_count() calls.
C30_RetainBinCountKeepsBuffer ==
  [][(lastOp' = "bin_count" /\ ~bt.only_bin) =>
       /\ [bt' EXCEPT !.bin_counts = bt.bin_counts,
                      !.bin_read_position = bt.bin_read_position] = bt
       /\ data(bt') = data(bt) /\ len(bt') = len(bt)
       /\ Len(bt'.data) = Len(bt.data)
       /\ LET after == T2Result_bin_count(ResultOf(bt)).result
          IN  /\ after.n_overflows = ResultOf(bt).n_overflows
              /\ after.timetags = bt']_vars

\* A retaining bin_count() has counted the timestamps of a full buffer, and
\* all of them are still stored.
C30_Reached ==
  /\ ~bt.only_bin /\ lastOp = "bin_count" /\ ret.raised = "none"
  /\ Len(ret.counts) > 0 /\ len(bt) = MaxBinTotal
  /\ data(bt) = added /\ bt.bin_read_position = len(bt)

====
